---- MODULE Spec2Model ----
(***************************************************************************)
(* Voice-agent call engine: the per-call ConversationOrchestrator          *)
(* (services/conversation.orchestrator.js), the DeepgramService STT        *)
(* wrapper (services/deepgram.service.js), the ElevenLabs TTS stop flag,   *)
(* and the two transports that drive an orchestrator: the hosted           *)
(* media-stream WebSocket (websocket/media-stream.server.js) and the SIP   *)
(* media bridge with the RTP session of SipTrunkService                    *)
(* (services/sip-media-bridge.js, SIP trunk service).                      *)
(*                                                                         *)
(* One call is modelled.  Every action is one run-to-completion segment of *)
(* the Node.js event loop: a handler from its entry (or from the           *)
(* resumption of an await) up to its next await or its return, including   *)
(* every listener that an emit() inside it invokes synchronously.          *)
(***************************************************************************)
EXTENDS Naturals, Sequences, FiniteSets, TLC

\* ---------------------------------------------------------------- bounds
\* Number of user utterances delivered to onUserSpeech during the call.
MaxTurns == 2
\* Capacity of callData.audioQueue (160-byte chunks waiting for the pacer).
MaxQueue == 2
\* Number of endSession / onCallEnded calls made from outside the bridge.
MaxExternalEnds == 1

\* ---------------------------------------------------------------- inputs
\* Task 0 is start(); tasks 1..MaxTurns are the onUserSpeech invocations.
Tasks == 0..MaxTurns
Turns == 1..MaxTurns
\* Texts the recognizer can deliver.
Transcripts == {"yes please"}
\* agentConfig.firstMessageMode
FirstMessageModes == {"assistant-speaks-first", "user-speaks-first"}
Transports == {"ws", "sip"}
\* Reasons a caller of SipMediaBridge.endSession passes ('unknown' is the
\* parameter's default value).
EndSessionReasons == {"unknown", "user_hangup"}
\* handleStop calling end() without a reason: the parameter's default.
\* SIP signalling inputs: the responses the trunk sends to REGISTER and to
\* INVITE, the endpoints an SDP answer or an RTP packet can name, the To tags
\* of 200 responses and the lengths of received RTP datagrams (a bare header
\* and a header with 160 bytes of audio).
MaxRegisterResponses == 2
MaxInviteResponses == 3
RegisterStatusCodes == {200, 401, 407, 403}
InviteStatusCodes == {100, 180, 200, 401, 407, 486}
statusText == [c \in RegisterStatusCodes \cup InviteStatusCodes |->
    CASE c = 100 -> "100 Trying"
      [] c = 180 -> "180 Ringing"
      [] c = 200 -> "200 OK"
      [] c = 401 -> "401 Unauthorized"
      [] c = 403 -> "403 Forbidden"
      [] c = 407 -> "407 Proxy Authentication Required"
      [] c = 486 -> "486 Busy Here"]
NoSdp == "no sdp"
Endpoints == {"198.51.100.7:20000", "203.0.113.9:40000"}
fallbackEndpoint == "serverIp:rtpPort"
ToTags == {"totag-a", "totag-b"}
RtpLengths == {12, 172}
registerCallId == "callid-register"
registerFromTag == "tag-register"
inviteCallId == "callid-invite"
inviteFromTag == "tag-invite"

\* RTP send side: the calls of sendAudio and the timer ticks of one call,
\* the buffers the TTS hands over (one of a whole number of 20 ms frames, one
\* that ends with a 5 ms remainder), the codecs an SDP answer can select, and
\* the packets already sent when the observation of the call starts (none,
\* two short of 2^16, two short of the last timestamp below 2^32).
MaxPackets == 3
MaxSendAudio == 2
CHUNK_SIZE == 160
SILENCE_CHUNK_SIZE == 160
ramp(n, b) == [i \in 1..n |-> (b + 3 * i) % 256]
AudioBuffers == {ramp(160, 0), ramp(200, 128)}
RemoteCodecs == {0, 8}
ElapsedPackets == {0, 65534, 26843544}

handleStopReasonDefault == "user_hangup"
\* The reason handleStop passes to orchestrator.end.
handleStopReason == "call_ended"
\* The reason the ws 'close' handler passes to orchestrator.end.
closeReason == "connection_closed"
\* The reason onCallEnded passes to endSession.
onCallEndedReason == "call_ended"
\* The text spoken on the error-recovery path of getAIResponse.
errorMessage == "Sorry, I encountered an issue. Could you please repeat that?"
firstMessage == "Hello! How can I help you today?"
fullResponse == "reply"

VARIABLES
    orch,              \* ConversationOrchestrator fields
    deepgram,          \* DeepgramService fields
    elevenlabs,        \* ElevenLabsService fields
    pc,                \* position of start() and of each onUserSpeech call
    events,            \* events emitted, packets sent and abort/completion
                       \* log lines written by the last segment
    ended,             \* number of 'ended' events emitted so far
    firstMessageMode,  \* agentConfig.firstMessageMode
    transport,         \* which transport drives the orchestrator
    ws,                \* media-stream connection closure + session map
    bridge,            \* SipMediaBridge session map + endSession calls
    call,              \* SipTrunkService callData of the call: media fields
    sip,               \* SipTrunkService register() and makeCall() closures
                       \* and the signalling fields of callData
    rtp,               \* SipTrunkService callData of an answered call: the
                       \* RTP send side, byte by byte
    stream,            \* media-stream connection closure: the media frames
    mixer,             \* RecordingService: one sample through the codec
    dial,              \* SipTrunkService: the number an INVITE is built for
    stt                \* DeepgramService with its timers on a clock

\* The variables of the components that run apart from a conversation.
componentVars == <<stream, mixer, dial, stt>>

vars == <<orch, deepgram, elevenlabs, pc, events, ended, firstMessageMode,
          transport, ws, bridge, call, sip, rtp, componentVars>>

\* Log lines of the abort checks, of the completion of speak(text) and of
\* the hosted transport's stop and close handlers.
logDelayAborted == "Call ended during response delay, aborting"
logLlmAborted == "Call ended during AI processing, skipping TTS"
logTtsAborted == "Aborting TTS stream - call ended"
logNowListening == "Speaking complete, now listening"
logStreamStopped == "Stream stopped"
logClientDisconnected == "Client disconnected"
logEmptyFinal == "Empty final received, using pending interim"
logUtteranceEnd == "Using interim transcript on UtteranceEnd"
logInterimFallback == "Interim fallback timer fired, using"
logNotRestarting ==
    "Speaking complete but call already ended, not restarting listener"

\* An emitted event: <<name, argument>>.
Ev(name, arg) == <<name, arg>>
Emitted(name) == \E i \in 1..Len(events) : events[i][1] = name
EmittedWith(name, arg) == \E i \in 1..Len(events) : events[i] = Ev(name, arg)

\* ------------------------------------------------------- DeepgramService
\* clearBuffer(): ignore transcripts, drop the pending interim, cancel the
\* fallback timer and schedule a 500 ms timeout that lifts the flag.  The
\* timeouts are never cancelled, so one is pending whenever the flag is set.
clearBuffer(d) ==
    [d EXCEPT !.ignoreTranscripts = TRUE,
              !.lastInterimTranscript = "",
              !.interimTimer = FALSE]

\* close(): cancel the fallback timer, drop the interim, finish the socket.
close(d) ==
    [d EXCEPT !.interimTimer = FALSE,
              !.lastInterimTranscript = "",
              !.connection = FALSE]

\* ------------------------------------------------------ ElevenLabsService
\* stop() that leaves the flag alone.
stopWithoutFlag(e) == e
\* stop(): the flag the chunk loop of textToSpeechStream reads.
stop(e) == [e EXCEPT !.stopped = TRUE]
\* textToSpeechStream() resets the flag before its first await.
textToSpeechStream(e) == [e EXCEPT !.stopped = FALSE]

\* -------------------------------------------------- ConversationOrchestrator
\* startSilenceTimer() that clears the timer and does not arm a new one.
startSilenceTimerCleared(o) == [o EXCEPT !.silenceTimer = FALSE]
\* startSilenceTimer(): clear and re-arm (silenceTimeoutSeconds is never
\* falsy: the constructor defaults it to 30).
startSilenceTimer(o) == [o EXCEPT !.silenceTimer = TRUE]

\* start() that does not arm the max-duration timer.
armMaxDurationTimerSkipped(o) == o
\* start(): the max-duration timer is armed (maxDurationSeconds is never
\* falsy: the constructor defaults it to 600).
armMaxDurationTimer(o) == [o EXCEPT !.maxDurationTimer = TRUE]

\* onUserSpeech guard: the transcript is dropped once the call has ended.
onUserSpeechDrops(o) == o.state = "ended" \/ o.aborted

\* onUserSpeech up to its await of the response delay.
onUserSpeech(o, transcript) ==
    startSilenceTimer(
        [o EXCEPT !.conversationLog =
                      Append(@, [role |-> "user", content |-> transcript])])

\* getAIResponse from its entry to the await of gemini.getResponse.
getAIResponse(o) == [o EXCEPT !.state = "thinking"]

\* speak() from its entry to the await of textToSpeechStream.
speak(o) == [o EXCEPT !.state = "speaking"]

\* speak() going back to listening without looking at _aborted.
speakDoneUnguarded(o) == startSilenceTimer([o EXCEPT !.state = "listening"])
\* speak() re-arming the silence timer without resetting the state.
speakDoneKeepsState(o) == IF ~o.aborted THEN startSilenceTimer(o) ELSE o
\* speak() after textToSpeechStream returned normally.
speakDone(o) ==
    IF ~o.aborted
    THEN startSilenceTimer([o EXCEPT !.state = "listening"])
    ELSE o

\* onAudioChunk(): the events it emits.
onAudioChunk(o) == IF o.aborted THEN <<>> ELSE <<Ev("audio", "chunk")>>

\* end() without its guard on the state.
endRunsAlways(o) == TRUE
\* end(): whether the call does anything, and its effect on the fields.
endRuns(o) == o.state # "ended"
\* end() that forgets to set _aborted.
endWithoutAbort(o) ==
    [o EXCEPT !.state = "ended",
              !.silenceTimer = FALSE,
              !.maxDurationTimer = FALSE]
end(o) ==
    [o EXCEPT !.state = "ended",
              !.aborted = TRUE,
              !.silenceTimer = FALSE,
              !.maxDurationTimer = FALSE]

\* startLiveTranscription(): the handlers are registered on a new connection.
startLiveTranscription(d) == [d EXCEPT !.connection = TRUE, !.handlers = TRUE]

\* ------------------------------------------------------- SipTrunkService
\* sendAudio(callId, audioData): n chunks of 160 bytes are queued and the
\* pacer is started when it is not running.
sendAudio(c, n) ==
    IF ~c.active
    THEN c
    ELSE [c EXCEPT !.audioQueue = @ + n,
                   !.isSendingAudio = IF c.audioSendInterval THEN @ ELSE TRUE,
                   !.audioSendInterval = TRUE]

\* hangup() up to its await of getLocalIp: both timers are cleared and the
\* queue is emptied.
hangup(c) ==
    [c EXCEPT !.keepAliveInterval = FALSE,
              !.audioSendInterval = FALSE,
              !.audioQueue = 0]

\* The headers of the requests that tell one request of a dialog from
\* another: method, Call-ID, From tag, CSeq and the Authorization header.
createRegisterRequest(callId, fromTag, cseq) ==
    [method |-> "REGISTER", callId |-> callId, fromTag |-> fromTag,
     cseq |-> cseq, authorization |-> FALSE]

createAuthenticatedRegister(callId, fromTag, cseq) ==
    [method |-> "REGISTER", callId |-> callId, fromTag |-> fromTag,
     cseq |-> cseq, authorization |-> TRUE]

createInviteRequest(callId, fromTag, cseq) ==
    [method |-> "INVITE", callId |-> callId, fromTag |-> fromTag,
     cseq |-> cseq, authorization |-> FALSE]

createAuthenticatedInvite(callId, fromTag, cseq) ==
    [method |-> "INVITE", callId |-> callId, fromTag |-> fromTag,
     cseq |-> cseq, authorization |-> TRUE]

createAckRequest(callId, fromTag, toTag, cseq) ==
    [method |-> "ACK", callId |-> callId, fromTag |-> fromTag,
     toTag |-> toTag, cseq |-> cseq]

\* The closures of register() and makeCall() and the signalling fields of
\* callData before makeCall() is called.  registers, invites and acks are
\* the requests sent on the SIP socket, in order; answeredEvents and
\* rtpStarts count the 'answered' events and the startRtpSession() calls.
newSip ==
    [registered |-> FALSE, regCseq |-> 0, regHandler |-> FALSE,
     regTimer |-> FALSE, regResponses |-> 0, registers |-> <<>>,
     promise |-> "none",
     status |-> "none", handler |-> FALSE, timer |-> FALSE,
     cseq |-> 0, authSent |-> FALSE, answered |-> FALSE, toTag |-> "",
     responses |-> 0, invites |-> <<>>, acks |-> <<>>,
     answeredEvents |-> 0, rtpStarts |-> 0,
     remoteRtp |-> "", sdpRerouteOccurred |-> FALSE,
     endpointLockout |-> FALSE]

\* The same after REGISTER, 200, INVITE and a 200 with an SDP answer: the
\* call of a SIP media session.
answeredSip ==
    [newSip EXCEPT
        !.registered = TRUE, !.regCseq = 1, !.regResponses = 1,
        !.registers = <<createRegisterRequest(registerCallId,
                                              registerFromTag, 1)>>,
        !.promise = "resolved",
        !.status = "answered", !.handler = TRUE, !.cseq = 1,
        !.answered = TRUE, !.toTag = "totag-a", !.responses = 1,
        !.invites = <<createInviteRequest(inviteCallId, inviteFromTag, 1)>>,
        !.acks = <<createAckRequest(inviteCallId, inviteFromTag,
                                    "totag-a", 1)>>,
        !.answeredEvents = 1, !.rtpStarts = 1,
        !.remoteRtp = "198.51.100.7:20000"]

\* The 401/407 branch of makeCall(): the authSent guard.
authAlreadySentNever(s) == FALSE
authAlreadySent(s) == s.authSent

\* The 200 branch of makeCall(): the answered guard.
alreadyAnsweredNever(s) == FALSE
alreadyAnswered(s) == s.answered

\* The rtpSocket message handler: a packet from another source may move the
\* send endpoint.
symmetricRtpAllowedAfterLockout(s) == ~s.endpointLockout
symmetricRtpAllowed(s) == ~s.sdpRerouteOccurred /\ ~s.endpointLockout

\* The target of an outbound RTP packet.
rtpTarget(s) == IF s.remoteRtp = "" THEN fallbackEndpoint ELSE s.remoteRtp

\* mu-law to A-law conversion table, indexed from byte 0.
ULAW_TO_ALAW == <<
    42, 43, 40, 41, 46, 47, 44, 45, 34, 35, 32, 33, 38, 39, 36, 37,
    58, 59, 56, 57, 62, 63, 60, 61, 50, 51, 48, 49, 54, 55, 52, 53,
    10, 11, 8, 9, 14, 15, 12, 13, 2, 3, 0, 1, 6, 7, 4, 5,
    26, 27, 24, 25, 30, 31, 28, 29, 18, 19, 16, 17, 22, 23, 20, 21,
    98, 99, 96, 97, 102, 103, 100, 101, 90, 91, 88, 89, 94, 95, 92, 93,
    114, 115, 112, 113, 118, 119, 116, 117, 106, 107, 104, 105, 110, 111, 108, 109,
    66, 67, 64, 65, 70, 71, 68, 69, 74, 75, 72, 73, 78, 79, 76, 77,
    82, 83, 80, 81, 86, 87, 84, 85, 122, 123, 120, 121, 126, 127, 124, 125,
    170, 171, 168, 169, 174, 175, 172, 173, 162, 163, 160, 161, 166, 167, 164, 165,
    186, 187, 184, 185, 190, 191, 188, 189, 178, 179, 176, 177, 182, 183, 180, 181,
    138, 139, 136, 137, 142, 143, 140, 141, 130, 131, 128, 129, 134, 135, 132, 133,
    154, 155, 152, 153, 158, 159, 156, 157, 146, 147, 144, 145, 150, 151, 148, 149,
    226, 227, 224, 225, 230, 231, 228, 229, 218, 219, 216, 217, 222, 223, 220, 221,
    242, 243, 240, 241, 246, 247, 244, 245, 234, 235, 232, 233, 238, 239, 236, 237,
    194, 195, 192, 193, 198, 199, 196, 197, 202, 203, 200, 201, 206, 207, 204, 205,
    210, 211, 208, 209, 214, 215, 212, 213, 250, 251, 248, 249, 254, 255, 252, 253>>

\* ulawToAlaw() without the table.
ulawToAlawCopy(ulawBuffer) == ulawBuffer
ulawToAlaw(ulawBuffer) ==
    [i \in 1..Len(ulawBuffer) |-> ULAW_TO_ALAW[ulawBuffer[i] + 1]]

\* A JavaScript number that can exceed 2^31, as hi * 2^16 + lo.
num(hi, lo) == [hi |-> hi, lo |-> lo]
plus(x, n) ==
    num(x.hi + (x.lo + n) \div 65536, (x.lo + n) % 65536)
times160(n) ==
    num((n \div 65536) * 160 + ((n % 65536) * 160) \div 65536,
        ((n % 65536) * 160) % 65536)

\* Buffer.writeUInt32BE(value) throws ERR_OUT_OF_RANGE above 2^32 - 1.
writeUInt32BEThrows(x) == x.hi >= 65536

\* The sequence field of a header: rtpSequence++ & 0xFFFF.
sequenceFieldUnmasked(n) == n
sequenceField(n) == n % 65536

\* The keep-alive payload for the codec of the call.
silenceBuffer(codec) ==
    [i \in 1..SILENCE_CHUNK_SIZE |-> IF codec = 8 THEN 213 ELSE 255]

\* The media fields of callData after startRtpSession(), with remoteCodec
\* from the SDP of the answer, and after n keep-alive packets.  passed,
\* sent and the src of a queued chunk record the bytes handed to sendAudio
\* and the packets sent, for the properties.
newRtp(codec, n) ==
    [active |-> TRUE, rtpSocket |-> TRUE, remoteCodec |-> codec,
     audioQueue |-> <<>>, audioSendInterval |-> FALSE,
     isSendingAudio |-> FALSE, keepAliveInterval |-> TRUE,
     rtpSequence |-> n, rtpTimestamp |-> times160(n),
     first |-> n, calls |-> 0, passed |-> <<>>, sent |-> <<>>]

\* The chunks sendAudio() cuts a processed buffer into, from offset on.
RECURSIVE slices(_, _, _)
slices(processedAudio, audioData, offset) ==
    IF offset >= Len(processedAudio)
    THEN <<>>
    ELSE LET last == IF offset + CHUNK_SIZE < Len(processedAudio)
                    THEN offset + CHUNK_SIZE
                    ELSE Len(processedAudio) IN
         <<[bytes |-> SubSeq(processedAudio, offset + 1, last),
            src |-> SubSeq(audioData, offset + 1, last)]>>
         \o slices(processedAudio, audioData, offset + CHUNK_SIZE)

\* sendAudio() that starts the pacer without setting isSendingAudio.
sendAudioChunksFlagUnset(r, audioData) ==
    [r EXCEPT !.audioQueue = @ \o slices(audioData, audioData, 0),
              !.audioSendInterval = TRUE,
              !.calls = @ + 1,
              !.passed = @ \o audioData]
\* sendAudio(callId, audioData) on the media fields r of the call.
sendAudioChunks(r, audioData) ==
    IF ~r.active \/ ~r.rtpSocket
    THEN r
    ELSE LET processedAudio == IF r.remoteCodec = 8
                               THEN ulawToAlaw(audioData)
                               ELSE audioData IN
         [r EXCEPT !.audioQueue = @ \o slices(processedAudio, audioData, 0),
                   !.isSendingAudio =
                       IF r.audioSendInterval THEN @ ELSE TRUE,
                   !.audioSendInterval = TRUE,
                   !.calls = @ + 1,
                   !.passed = @ \o audioData]

\* The RTP packet both timers build: header fields and payload.
rtpPacket(r, kind, chunk) ==
    [kind |-> kind, pt |-> r.remoteCodec,
     seq |-> sequenceField(r.rtpSequence), ts |-> r.rtpTimestamp,
     payload |-> chunk.bytes, src |-> chunk.src]

\* The BYE branch of makeCall(): the byeReceived guard.
byeAlreadyReceivedNever(c) == FALSE
byeAlreadyReceived(c) == c.byeReceived

\* The BYE branch on callData: both timers are cleared and the queue is
\* emptied, once.
onBye(c) ==
    IF byeAlreadyReceived(c)
    THEN c
    ELSE [c EXCEPT !.byeReceived = TRUE,
                   !.keepAliveInterval = FALSE,
                   !.audioSendInterval = FALSE,
                   !.audioQueue = 0]

\* ------------------------------------ media-stream server: start buffer
\* The message handler buffers at most this many media frames.
MEDIA_BUFFER_LIMIT == 500

\* Media frames that arrive before and after the session is ready.
MaxEarlyFrames == 502
MaxLateFrames == 2

\* The closure of one connection: sessionReady and mediaBuffer, whether
\* activeSessions holds the stream, and how far handleStart has come.  A
\* media frame is its arrival number; arrived counts the frames received,
\* early those received before sessionReady was set, delivered lists the
\* frames handed to orchestrator.processIncomingAudio, drained tells that
\* the buffer was handed over to a session, over and closed that the
\* 'stop' frame and the 'close' event have come.
newStream ==
    [phase |-> "open", sessionReady |-> FALSE, session |-> FALSE,
     over |-> FALSE, closed |-> FALSE, mediaBuffer |-> <<>>, arrived |-> 0, early |-> 0,
     delivered |-> <<>>, drained |-> FALSE]

\* case 'media' before the session is ready: the bounded push.
bufferMediaUnbounded(mediaBuffer, msg) == Append(mediaBuffer, msg)
bufferMedia(mediaBuffer, msg) ==
    IF Len(mediaBuffer) < MEDIA_BUFFER_LIMIT
    THEN Append(mediaBuffer, msg)
    ELSE mediaBuffer

\* handleMedia(streamSid, msg): without a session the frame is dropped.
handleMedia(st, msg) ==
    IF st.session THEN [st EXCEPT !.delivered = Append(@, msg)] ELSE st

\* The loop over mediaBuffer after handleStart has returned: handleMedia on
\* each buffered frame in order.  The loop does not change activeSessions,
\* so either every frame is delivered or none is.
processBuffered(st, buffered) ==
    IF buffered # <<>> /\ handleMedia(st, Head(buffered)) # st
    THEN [st EXCEPT !.delivered = @ \o buffered]
    ELSE st

\* ------------------------------------------- RecordingService: mu-law codec
BIAS == 132
CLIP == 32635
TABLE == <<0, 0, 1, 1, 2, 2, 2, 2, 3, 3, 3, 3, 3, 3, 3, 3,
           4, 4, 4, 4, 4, 4, 4, 4, 4, 4, 4, 4, 4, 4, 4, 4>>

\* 2^n.
RECURSIVE shift(_)
shift(n) == IF n = 0 THEN 1 ELSE 2 * shift(n - 1)

\* mulawToLinear(mulaw): the bits of ~mulaw.
mulawToLinear(mulaw) ==
    LET inverted == 255 - mulaw
        sign == (inverted \div 128) % 2
        exponent == (inverted \div 16) % 8
        mantissa == inverted % 16
        sample == mantissa * shift(exponent + 3) + BIAS * shift(exponent)
                  + (IF exponent = 0 THEN BIAS ELSE 0) IN
    IF sign = 0 THEN sample ELSE 0 - sample

\* linearToMulaw(sample): TABLE has 32 entries, a missing one reads as 0.
linearToMulaw(sample) ==
    LET sign == IF sample < 0 THEN 128 ELSE 0
        magnitude == IF sample < 0 THEN 0 - sample ELSE sample
        clipped == IF magnitude > CLIP THEN CLIP ELSE magnitude
        biased == clipped + BIAS
        index == (biased \div 128) % 256
        exponent == IF index < Len(TABLE) THEN TABLE[index + 1] ELSE 0
        mantissa == (biased \div shift(exponent + 3)) % 16 IN
    255 - (sign + exponent * 16 + mantissa)

\* One sample on its way through mixAudio: decoded, then encoded.
newMixer(mulaw) ==
    [stage |-> "sample", mulaw |-> mulaw, linear |-> 0, mixed |-> 0]

\* ---------------------------------------- SipTrunkService: dialed number
\* Digits of the numbers dialed, the longest being MaxDigits long.
MaxDigits == 13
Prefixes == {<<"9", "1">>, <<"9", "8">>, <<"1", "9">>}

\* A number of n digits that starts with prefix, with or without '+'.
number(withPlus, prefix, n) ==
    (IF withPlus THEN <<"+">> ELSE <<>>)
    \o [i \in 1..n |-> IF i <= 2 THEN prefix[i]
                       ELSE IF i % 2 = 1 THEN "7" ELSE "0"]

\* toNumber.replace(/^\+/, '').
stripPlus(toNumber) ==
    IF toNumber # <<>> /\ Head(toNumber) = "+" THEN Tail(toNumber)
    ELSE toNumber

\* cleanTo of createInviteRequest() and of createAuthenticatedInvite().
cleanTo(toNumber) ==
    LET stripped == stripPlus(toNumber) IN
    IF /\ Len(stripped) >= 2
       /\ SubSeq(stripped, 1, 2) = <<"9", "1">>
       /\ Len(stripped) > 10
    THEN SubSeq(stripped, 3, Len(stripped))
    ELSE stripped

\* The number makeCall() was given and the user part of the Request-URI of
\* the INVITE and of the authenticated INVITE built for it.
newDial(toNumber) ==
    [stage |-> "number", toNumber |-> toNumber, invite |-> <<>>,
     authenticated |-> <<>>]

\* ------------------------------------------ DeepgramService on a clock
CLEAR_BUFFER_MS == 500
INTERIM_FALLBACK_MS == 1500

\* The clock counts quarter seconds, up to MaxTime; clearBuffer is called
\* at most MaxClears times.
MaxTime == 8
MaxClears == 2
ticks(ms) == ms \div 250
SttTranscripts == {"yes", "yes please"}

\* The wrapper after startLiveTranscription(), with the clock: now, the due
\* times of the pending clearBuffer timeouts (oldest first) and of the
\* fallback timer, the times of the last clearBuffer call and of the last
\* stored interim, and the last thing that happened to the wrapper.
newStt ==
    [ignoreTranscripts |-> FALSE, lastInterimTranscript |-> "",
     interimTimer |-> FALSE, connection |-> TRUE, handlers |-> TRUE,
     now |-> 0, clearTimeouts |-> <<>>, clears |-> 0, clearedAt |-> 0,
     interimDue |-> 0, interimAt |-> 0, last |-> "start"]

\* The timeout callback of clearBuffer: the flag is lifted.
clearBufferExpired(d) ==
    [d EXCEPT !.clearTimeouts = Tail(@), !.ignoreTranscripts = FALSE]

\* The handlers' test of the flag, always negative.
ignoringNever(d) == FALSE
\* The handlers' test of the flag.
ignoring(d) == d.ignoreTranscripts

\* _startInterimFallbackTimer() that arms nothing.
startInterimFallbackTimerNot(d) == d
\* _startInterimFallbackTimer(): the one timer is cleared and armed anew.
startInterimFallbackTimer(d) ==
    [d EXCEPT !.interimTimer = TRUE,
              !.interimDue = d.now + ticks(INTERIM_FALLBACK_MS)]

\* ----------------------------------------------------------------- Init
Init ==
    /\ orch = [state |-> "idle", aborted |-> FALSE, conversationLog |-> <<>>,
               silenceTimer |-> FALSE, maxDurationTimer |-> FALSE]
    /\ deepgram = [ignoreTranscripts |-> FALSE, lastInterimTranscript |-> "",
                   interimTimer |-> FALSE,
                   connection |-> FALSE, handlers |-> FALSE]
    /\ elevenlabs = [stopped |-> FALSE]
    /\ pc = [t \in Tasks |-> "idle"]
    /\ events = <<>>
    /\ ended = 0
    /\ firstMessageMode \in FirstMessageModes
    /\ transport \in Transports
    /\ ws = [phase |-> "open", closed |-> FALSE, session |-> FALSE,
             save |-> "none", stopped |-> FALSE]
    /\ bridge = [session |-> FALSE, audioInHandler |-> FALSE,
                 endTasks |-> <<>>, externalEnds |-> 0,
                 recording |-> FALSE, uploads |-> 0, updates |-> 0,
                 byes |-> 0]
    \* A SIP media session is started for an answered call: the RTP session
    \* of the call runs its keep-alive timer (startRtpSession).
    /\ call = [active |-> transport = "sip",
               keepAliveInterval |-> transport = "sip",
               audioSendInterval |-> FALSE, audioQueue |-> 0,
               isSendingAudio |-> FALSE, rtpSocket |-> transport = "sip",
               socket |-> transport = "sip", byeReceived |-> FALSE]
    /\ sip = IF transport = "sip" THEN answeredSip ELSE newSip
    /\ rtp = newRtp(0, 0)
    /\ stream = newStream
    /\ stt = newStt
    /\ mixer = newMixer(0)
    /\ dial = newDial(<<>>)

\* ------------------------------------------- listeners of orchestrator events
\* 'audio' listeners: sendAudioToTwilio (hosted) / sipService.sendAudio (SIP).
AudioListenerEvents(evs) ==
    IF evs # <<>> /\ transport = "ws" /\ ~ws.closed
    THEN evs \o <<Ev("ws_media", "chunk")>>
    ELSE evs

\* SipMediaBridge.endSession up to its await of stopAndUpload, entered for a
\* session that exists: the audio_in listener is removed and the call is
\* parked at the recording upload.
\* RecordingService.stopAndUpload up to its await of the S3 upload: without
\* a recording of the call it returns null, otherwise the upload is issued;
\* the recording is removed only once the upload has settled.
stopAndUpload(b) ==
    IF b.recording THEN [b EXCEPT !.uploads = @ + 1] ELSE b

endSessionEnter(b, reason) ==
    [stopAndUpload(b) EXCEPT
              !.audioInHandler = FALSE,
              !.endTasks = Append(@, [pc |-> "upload", reason |-> reason])]

\* 'ended' listeners: saveConversationLog (hosted) / endSession (SIP).
EndedListenerWs(w, ran) ==
    IF ran /\ transport = "ws" THEN [w EXCEPT !.save = "saving"] ELSE w
EndedListenerBridge(b, ran, reason) ==
    IF ran /\ transport = "sip" /\ b.session
    THEN endSessionEnter(b, reason)
    ELSE b

\* orchestrator.end(reason), called on the orchestrator fields o, with
\* everything it calls and emits, except the transport's own variables
\* (see EndedListenerWs / EndedListenerBridge).
OrchEndLogged(o, reason, log) ==
    /\ orch' = IF endRuns(o) THEN end(o) ELSE o
    /\ deepgram' = IF endRuns(o) THEN close(deepgram) ELSE deepgram
    /\ elevenlabs' = IF endRuns(o) THEN stop(elevenlabs) ELSE elevenlabs
    /\ events' = log \o (IF endRuns(o) THEN <<Ev("ended", reason)>> ELSE <<>>)
    /\ ended' = IF endRuns(o) THEN ended + 1 ELSE ended
    /\ pc' = pc

OrchEnd(o, reason) == OrchEndLogged(o, reason, <<>>)

\* The 'ended' listener of the transport in use, for actions that change
\* nothing else of the transports.
EndedListeners(o, reason) ==
    /\ ws' = EndedListenerWs(ws, endRuns(o))
    /\ bridge' = EndedListenerBridge(bridge, endRuns(o), reason)
    /\ call' = call

\* ------------------------------------------------- orchestrator: start()
\* start(): max-duration timer, startListening, then either the first
\* message is spoken (up to the await of TTS) or the state is 'listening'.
OrchStart ==
    /\ pc[0] = "idle"
    /\ LET o1 == [armMaxDurationTimer(orch) EXCEPT !.state = "listening"]
           d1 == startLiveTranscription(deepgram)
       IN IF firstMessageMode = "assistant-speaks-first"
          THEN /\ orch' = speak(o1)
               /\ deepgram' = clearBuffer(d1)
               /\ elevenlabs' = textToSpeechStream(elevenlabs)
               /\ pc' = [pc EXCEPT ![0] = "tts"]
               /\ events' = <<Ev("speaking", firstMessage)>>
          ELSE /\ orch' = startSilenceTimer(o1)
               /\ deepgram' = d1
               /\ elevenlabs' = elevenlabs
               /\ pc' = [pc EXCEPT ![0] = "done"]
               /\ events' = <<Ev("started", "")>>

\* ----------------------------------------- orchestrator: a user utterance
\* The first onUserSpeech invocation not yet used.
FreeTurns == {t \in Turns : pc[t] = "idle"}
NextTurn == CHOOSE t \in FreeTurns : \A u \in FreeTurns : t <= u

\* onTranscript(transcript) -> onUserSpeech(transcript), called by the STT
\* wrapper whose fields become d; the call of the callback is recorded,
\* after the log line the wrapper wrote for a pending interim.
DeliverLogged(d, transcript, log) ==
    /\ deepgram' = d
    /\ IF onUserSpeechDrops(orch)
       THEN /\ orch' = orch
            /\ pc' = pc
            /\ events' = log \o <<Ev("onTranscript", transcript)>>
       ELSE /\ FreeTurns # {}
            /\ orch' = onUserSpeech(orch, transcript)
            /\ pc' = [pc EXCEPT ![NextTurn] = "delay"]
            /\ events' = log \o <<Ev("onTranscript", transcript),
                                   Ev("user_speech", transcript)>>
    /\ UNCHANGED <<elevenlabs, ended, firstMessageMode, transport, sip, rtp, componentVars, ws, bridge, call>>

Deliver(d, transcript) == DeliverLogged(d, transcript, <<>>)

\* onUserSpeech after the response delay, into getAIResponse.
DelayDone(t) ==
    /\ pc[t] = "delay"
    /\ IF orch.aborted
       THEN /\ pc' = [pc EXCEPT ![t] = "done"]
            /\ UNCHANGED <<orch, deepgram>>
            /\ events' = <<Ev("log", logDelayAborted)>>
       ELSE /\ orch' = getAIResponse(orch)
            /\ deepgram' = clearBuffer(deepgram)
            /\ pc' = [pc EXCEPT ![t] = "llm"]
            /\ events' = <<Ev("thinking", "")>>
    /\ UNCHANGED <<elevenlabs, ended, firstMessageMode, transport, sip, rtp, componentVars, ws, bridge, call>>

\* getAIResponse after gemini.getResponse returned the reply.
LlmDone(t) ==
    /\ pc[t] = "llm"
    /\ IF orch.aborted
       THEN /\ pc' = [pc EXCEPT ![t] = "done"]
            /\ UNCHANGED <<orch, deepgram, elevenlabs>>
            /\ events' = <<Ev("log", logLlmAborted)>>
       ELSE /\ orch' = speak([orch EXCEPT !.conversationLog =
                         Append(@, [role |-> "assistant",
                                    content |-> fullResponse])])
            /\ deepgram' = clearBuffer(deepgram)
            /\ elevenlabs' = textToSpeechStream(elevenlabs)
            /\ pc' = [pc EXCEPT ![t] = "tts"]
            /\ events' = <<Ev("assistant_speech", fullResponse),
                           Ev("speaking", fullResponse)>>
    /\ UNCHANGED <<ended, firstMessageMode, transport, sip, rtp, componentVars, ws, bridge, call>>

\* getAIResponse after gemini.getResponse threw: the catch block.
LlmFail(t) ==
    /\ pc[t] = "llm"
    /\ IF orch.aborted
       THEN /\ pc' = [pc EXCEPT ![t] = "done"]
            /\ UNCHANGED <<orch, deepgram, elevenlabs>>
            /\ events' = <<>>
       ELSE /\ orch' = speak(orch)
            /\ deepgram' = clearBuffer(deepgram)
            /\ elevenlabs' = textToSpeechStream(elevenlabs)
            /\ pc' = [pc EXCEPT ![t] = "apology"]
            /\ events' = <<Ev("error", "llm"), Ev("speaking", errorMessage)>>
    /\ UNCHANGED <<ended, firstMessageMode, transport, sip, rtp, componentVars, ws, bridge, call>>

\* ------------------------------------------------- orchestrator: TTS stream
InTts(t) == pc[t] \in {"tts", "apology"}

\* What the caller of speak() does when speak() returns: start() emits
\* 'started'; getAIResponse returns.
AfterSpeak(t) == IF t = 0 THEN <<Ev("started", "")>> ELSE <<>>

\* The text a speak() in flight was called with.
Spoken(t) ==
    IF t = 0 THEN firstMessage
    ELSE IF pc[t] = "apology" THEN errorMessage ELSE fullResponse

\* textToSpeechStream returned normally (the stream ended, or the chunk loop
\* saw the stop flag, logged logTtsAborted and broke): the rest of
\* speak(text), whose completion log line is recorded with the text.
TtsReturn(t, log) ==
    /\ orch' = speakDone(orch)
    /\ pc' = [pc EXCEPT ![t] = "done"]
    /\ events' = log
                 \o <<Ev(IF orch.aborted THEN logNotRestarting
                         ELSE logNowListening, Spoken(t))>>
                 \o AfterSpeak(t)
    /\ UNCHANGED <<deepgram, elevenlabs, ended, firstMessageMode, transport, sip, rtp, componentVars,
                   ws, bridge, call>>

TtsDone(t) ==
    /\ InTts(t)
    /\ TtsReturn(t, <<>>)

\* One chunk of the TTS stream arrives in the for-await loop.
TtsChunk(t, n) ==
    /\ InTts(t)
    /\ IF elevenlabs.stopped
       THEN TtsReturn(t, <<Ev("log", logTtsAborted)>>)
       ELSE /\ events' = AudioListenerEvents(onAudioChunk(orch))
            /\ call' = IF onAudioChunk(orch) # <<>> /\ transport = "sip"
                       THEN sendAudio(call, n)
                       ELSE call
            /\ call'.audioQueue <= MaxQueue
            /\ UNCHANGED <<orch, deepgram, elevenlabs, pc, ended,
                           firstMessageMode, transport, sip, rtp, componentVars, ws, bridge>>

\* textToSpeechStream threw: the catch block of speak(), which does not
\* rethrow.
TtsFail(t) ==
    /\ InTts(t)
    /\ pc' = [pc EXCEPT ![t] = "done"]
    /\ events' = (IF orch.aborted THEN <<>> ELSE <<Ev("error", Spoken(t))>>)
                 \o AfterSpeak(t)
    /\ UNCHANGED <<orch, deepgram, elevenlabs, ended, firstMessageMode, transport, sip, rtp, componentVars,
                   ws, bridge, call>>

\* ---------------------------------------------------- orchestrator: timers
\* The silence timeout fires: end('silence_timeout').
SilenceTimeout ==
    /\ orch.silenceTimer
    /\ LET o == [orch EXCEPT !.silenceTimer = FALSE]
       IN /\ OrchEnd(o, "silence_timeout")
          /\ EndedListeners(o, "silence_timeout")
    /\ UNCHANGED <<firstMessageMode, transport, sip, rtp, componentVars>>

\* The max-duration timeout fires: end('max_duration').
MaxDurationTimeout ==
    /\ orch.maxDurationTimer
    /\ LET o == [orch EXCEPT !.maxDurationTimer = FALSE]
       IN /\ OrchEnd(o, "max_duration")
          /\ EndedListeners(o, "max_duration")
    /\ UNCHANGED <<firstMessageMode, transport, sip, rtp, componentVars>>

\* ------------------------------------------- DeepgramService: recognizer events
\* The pending interim surfaced without being dropped.
UsePendingInterimKept(d, line) ==
    DeliverLogged([d EXCEPT !.interimTimer = FALSE],
                  d.lastInterimTranscript, <<Ev("log", line)>>)
\* The pending interim is surfaced as the committed utterance.
UsePendingInterim(d, line) ==
    DeliverLogged([d EXCEPT !.interimTimer = FALSE,
                            !.lastInterimTranscript = ""],
                  d.lastInterimTranscript, <<Ev("log", line)>>)

NoTranscript ==
    /\ events' = <<>>
    /\ UNCHANGED <<orch, deepgram, elevenlabs, pc, ended, firstMessageMode,
                   transport, sip, rtp, componentVars, ws, bridge, call>>

\* LiveTranscriptionEvents.Transcript with a non-empty final transcript.
TranscriptFinal(transcript) ==
    /\ deepgram.handlers
    /\ IF deepgram.ignoreTranscripts
       THEN NoTranscript
       ELSE Deliver([deepgram EXCEPT !.interimTimer = FALSE,
                                     !.lastInterimTranscript = ""],
                    transcript)

\* LiveTranscriptionEvents.Transcript with a non-empty interim transcript:
\* it is stored, onInterim resets the silence timer, the fallback timer is
\* (re)started.
TranscriptInterim(transcript) ==
    /\ deepgram.handlers
    /\ IF deepgram.ignoreTranscripts
       THEN NoTranscript
       ELSE /\ deepgram' = [deepgram EXCEPT
                               !.lastInterimTranscript = transcript,
                               !.interimTimer = TRUE]
            /\ orch' = startSilenceTimer(orch)
            /\ events' = <<Ev("onInterim", transcript)>>
            /\ UNCHANGED <<elevenlabs, pc, ended, firstMessageMode, transport, sip, rtp, componentVars, ws,
                           bridge, call>>

\* LiveTranscriptionEvents.Transcript with an empty final transcript.
TranscriptEmptyFinal ==
    /\ deepgram.handlers
    /\ IF deepgram.lastInterimTranscript # "" /\ ~deepgram.ignoreTranscripts
       THEN UsePendingInterim(deepgram, logEmptyFinal)
       ELSE NoTranscript

\* LiveTranscriptionEvents.UtteranceEnd.
UtteranceEnd ==
    /\ deepgram.handlers
    /\ IF deepgram.lastInterimTranscript # "" /\ ~deepgram.ignoreTranscripts
       THEN UsePendingInterim(deepgram, logUtteranceEnd)
       ELSE NoTranscript

\* The 1500 ms interim fallback timer fires.
InterimFallback ==
    /\ deepgram.interimTimer
    /\ LET d == [deepgram EXCEPT !.interimTimer = FALSE]
       IN IF d.lastInterimTranscript # "" /\ ~d.ignoreTranscripts
          THEN DeliverLogged([d EXCEPT !.lastInterimTranscript = ""],
                             d.lastInterimTranscript,
                             <<Ev("log", logInterimFallback)>>)
          ELSE /\ deepgram' = d
               /\ events' = <<>>
               /\ UNCHANGED <<orch, elevenlabs, pc, ended, firstMessageMode,
                              transport, sip, rtp, componentVars, ws, bridge, call>>

\* One of the 500 ms timeouts scheduled by clearBuffer fires while the flag
\* is set (a timeout that fires with the flag already lifted changes
\* nothing): the flag is lifted, whichever clearBuffer call set it last.
ClearBufferTimeout ==
    /\ deepgram.ignoreTranscripts
    /\ deepgram' = [deepgram EXCEPT !.ignoreTranscripts = FALSE]
    /\ events' = <<>>
    /\ UNCHANGED <<orch, elevenlabs, pc, ended, firstMessageMode, transport, sip, rtp, componentVars, ws,
                   bridge, call>>

\* ------------------------------------------ hosted media-stream WebSocket
\* 'start' frame: handleStart up to its await of Agent.findById.
WsStart ==
    /\ transport = "ws"
    /\ ~ws.closed
    /\ ws.phase = "open"
    /\ ws' = [ws EXCEPT !.phase = "loading"]
    /\ events' = <<>>
    /\ UNCHANGED <<orch, deepgram, elevenlabs, pc, ended, firstMessageMode,
                   transport, sip, rtp, componentVars, bridge, call>>

\* Agent.findById resolved with no agent: handleStart returns.
WsAgentNotFound ==
    /\ transport = "ws"
    /\ ws.phase = "loading"
    /\ ws' = [ws EXCEPT !.phase = "noagent"]
    /\ events' = <<>>
    /\ UNCHANGED <<orch, deepgram, elevenlabs, pc, ended, firstMessageMode,
                   transport, sip, rtp, componentVars, bridge, call>>

\* Agent.findById resolved: the orchestrator is created, stored in
\* activeSessions and in the connection's closure, and started.
WsAgentLoaded ==
    /\ transport = "ws"
    /\ ws.phase = "loading"
    /\ ws' = [ws EXCEPT !.phase = "ready", !.session = TRUE]
    /\ OrchStart
    /\ UNCHANGED <<ended, firstMessageMode, transport, sip, rtp, componentVars, bridge, call>>

\* 'stop' frame: handleStop, with the orchestrator the connection's closure
\* holds at that moment (none before handleStart has created it).  The code
\* keeps no trace of a handled 'stop' frame; ws.stopped is a history flag
\* that records one for a started stream where observed is set.
handleStop(observed) ==
    /\ transport = "ws"
    /\ ~ws.closed
    /\ IF ws.phase = "ready"
       THEN /\ OrchEndLogged(orch, handleStopReason,
                             <<Ev("log", logStreamStopped)>>)
            /\ ws' = [EndedListenerWs(ws, endRuns(orch)) EXCEPT
                         !.session = FALSE, !.stopped = @ \/ observed]
       ELSE /\ ws' = [ws EXCEPT !.session = FALSE,
                                !.stopped = @ \/ (observed /\ ws.phase # "open")]
            /\ events' = <<Ev("log", logStreamStopped)>>
            /\ UNCHANGED <<orch, deepgram, elevenlabs, pc, ended>>
    /\ UNCHANGED <<firstMessageMode, transport, sip, rtp, componentVars, bridge, call>>

WsStop == handleStop(FALSE)

WsStopObserved == handleStop(TRUE)

\* ws 'close'.
WsClose ==
    /\ transport = "ws"
    /\ ~ws.closed
    /\ IF ws.phase = "ready"
       THEN /\ OrchEndLogged(orch, closeReason,
                             <<Ev("log", logClientDisconnected)>>)
            /\ ws' = [EndedListenerWs(ws, endRuns(orch)) EXCEPT
                         !.session = FALSE, !.closed = TRUE]
       ELSE /\ ws' = [ws EXCEPT !.session = FALSE, !.closed = TRUE]
            /\ events' = <<Ev("log", logClientDisconnected)>>
            /\ UNCHANGED <<orch, deepgram, elevenlabs, pc, ended>>
    /\ UNCHANGED <<firstMessageMode, transport, sip, rtp, componentVars, bridge, call>>

\* The 'ended' listener after saveConversationLog: the session is removed.
WsSaveDone ==
    /\ ws.save = "saving"
    /\ ws' = [ws EXCEPT !.save = "done", !.session = FALSE]
    /\ events' = <<>>
    /\ UNCHANGED <<orch, deepgram, elevenlabs, pc, ended, firstMessageMode,
                   transport, sip, rtp, componentVars, bridge, call>>

\* ------------------------------------------------------- SIP media bridge
\* startSession: the session is stored, the audio handlers are set up and
\* the orchestrator is started.
SipStartSession ==
    /\ transport = "sip"
    /\ bridge' = [bridge EXCEPT !.session = TRUE, !.audioInHandler = TRUE,
                                !.recording = TRUE]
    /\ OrchStart
    /\ UNCHANGED <<ended, firstMessageMode, transport, sip, rtp, componentVars, ws, call>>

\* endSession(internalCallId, reason) called from outside the bridge, up to
\* its await of stopAndUpload.  orchestrator.end(reason) emits 'ended', whose
\* listener enters endSession again before the outer call goes on.
EndSessionCall(reason) ==
    /\ transport = "sip"
    /\ pc[0] # "idle"
    /\ bridge.externalEnds < MaxExternalEnds
    /\ IF bridge.session
       THEN /\ OrchEnd(orch, reason)
            /\ bridge' = [endSessionEnter(
                              EndedListenerBridge(bridge, endRuns(orch), reason),
                              reason)
                          EXCEPT !.externalEnds = @ + 1]
       ELSE /\ bridge' = [bridge EXCEPT !.externalEnds = @ + 1]
            /\ events' = <<>>
            /\ UNCHANGED <<orch, deepgram, elevenlabs, pc, ended>>
    /\ UNCHANGED <<firstMessageMode, transport, sip, rtp, componentVars, ws, call>>

\* endSession(internalCallId, reason = 'unknown') by a caller of the bridge.
EndSession(reason) == EndSessionCall(reason)

\* onCallEnded(internalCallId): endSession(internalCallId, 'call_ended').
OnCallEnded == EndSessionCall(onCallEndedReason)

\* The endSession calls in flight without the i-th, which returned.
Without(q, i) == SubSeq(q, 1, i - 1) \o SubSeq(q, i + 1, Len(q))

EndTaskAt(i, p) == i \in 1..Len(bridge.endTasks) /\ bridge.endTasks[i].pc = p

\* endSession after stopAndUpload settled (the recording is removed whether
\* the upload succeeded or failed): Call.findByIdAndUpdate is issued and
\* awaited.
EndSessionUploaded(i) ==
    /\ EndTaskAt(i, "upload")
    /\ bridge' = [bridge EXCEPT !.endTasks[i].pc = "db",
                                !.recording = FALSE,
                                !.updates = @ + 1]
    /\ events' = <<>>
    /\ UNCHANGED <<orch, deepgram, elevenlabs, pc, ended, firstMessageMode,
                   transport, sip, rtp, componentVars, ws, call>>

\* endSession after Call.findByIdAndUpdate settled: sipService.hangup is
\* called unless the reason is 'call_ended'; a hangup that finds the call
\* returns at its await of getLocalIp, otherwise the session is removed.
EndSessionUpdated(i) ==
    /\ EndTaskAt(i, "db")
    /\ IF bridge.endTasks[i].reason # "call_ended" /\ call.active
       THEN /\ call' = hangup(call)
            /\ bridge' = [bridge EXCEPT !.endTasks[i].pc = "hangup"]
       ELSE /\ call' = call
            /\ bridge' = [bridge EXCEPT !.endTasks = Without(@, i),
                                        !.session = FALSE]
    /\ events' = <<>>
    /\ UNCHANGED <<orch, deepgram, elevenlabs, pc, ended, firstMessageMode,
                   transport, sip, rtp, componentVars, ws>>

\* hangup after getLocalIp: BYE is sent, both sockets are closed, the call
\* is removed and 'ended' is emitted by the SIP service; sending on a socket
\* an earlier hangup closed throws into the catch of endSession.  The
\* session is removed either way.
EndSessionHungUp(i) ==
    /\ EndTaskAt(i, "hangup")
    /\ call' = IF call.socket
               THEN [call EXCEPT !.rtpSocket = FALSE, !.socket = FALSE,
                                 !.active = FALSE]
               ELSE call
    /\ events' = IF call.socket
                 THEN <<Ev("sip", "BYE"), Ev("sip_ended", "")>>
                 ELSE <<>>
    /\ bridge' = [bridge EXCEPT !.endTasks = Without(@, i),
                                !.session = FALSE,
                                !.byes = IF call.socket THEN @ + 1 ELSE @]
    /\ UNCHANGED <<orch, deepgram, elevenlabs, pc, ended, firstMessageMode,
                   transport, sip, rtp, componentVars, ws>>

\* ------------------------------------------------ SipTrunkService: RTP
\* The 20 ms pacer interval fires.
PacerTick ==
    /\ call.audioSendInterval
    /\ IF call.audioQueue = 0
       THEN /\ call' = [call EXCEPT !.audioSendInterval = FALSE,
                                    !.isSendingAudio = FALSE]
            /\ events' = <<>>
       ELSE /\ call' = [call EXCEPT !.audioQueue =
                           IF call.rtpSocket THEN @ - 1 ELSE 0]
            /\ events' = IF call.rtpSocket
                         THEN <<Ev("rtp", "audio"),
                                Ev("rtp_to", rtpTarget(sip))>>
                         ELSE <<>>
    /\ UNCHANGED <<orch, deepgram, elevenlabs, pc, ended, firstMessageMode,
                   transport, sip, rtp, componentVars, ws, bridge>>

\* The 20 ms keep-alive interval fires; recent: audio was sent less than
\* 40 ms ago.
KeepAliveTick(recent) ==
    /\ call.keepAliveInterval
    /\ events' = IF call.isSendingAudio \/ recent \/ ~call.rtpSocket
                 THEN <<>>
                 ELSE <<Ev("rtp", "keepalive"),
                        Ev("rtp_to", rtpTarget(sip))>>
    /\ UNCHANGED <<orch, deepgram, elevenlabs, pc, ended, firstMessageMode,
                   transport, sip, rtp, componentVars, ws, bridge, call>>

\* A BYE request is received, for the first time or again: the BYE branch
\* of the call's message handler.
SipBye ==
    /\ call.active
    /\ call' = onBye(call)
    /\ events' = <<Ev("sip_in", "BYE")>> \o
                 (IF byeAlreadyReceived(call)
                  THEN <<>>
                  ELSE <<Ev("sip", "200 OK"),
                         Ev("sip_ended", "remote_hangup")>>)
    /\ UNCHANGED <<orch, deepgram, elevenlabs, pc, ended, firstMessageMode,
                   transport, sip, rtp, componentVars, ws, bridge>>

\* ------------------------------------------- SipTrunkService signalling
logAuthAlreadySent == "[SipTrunk] Auth already sent, ignoring duplicate 401"
logDuplicateOk == "[SipTrunk] 200 OK already processed, ignoring duplicate"
logEndpointUpdatedSdp == "[SipTrunk] RTP endpoint updated (SDP)"
logRegistrationFailed == "[SipTrunk] Registration failed"
logCallFailed == "[SipTrunk] Call failed"
logCallTimeout == "[SipTrunk] Call timeout"

\* resolve() and reject() settle a promise once.
settle(p, outcome) == IF p = "pending" THEN outcome ELSE p

sessionVars == <<orch, deepgram, elevenlabs, pc, ended, firstMessageMode,
                 transport, ws, bridge, rtp, componentVars>>

\* makeCall() is called: register() binds the socket, installs its message
\* handler, sends REGISTER with CSeq 1 and arms the 10 s timeout.
Register ==
    /\ sip.promise = "none"
    /\ sip' = [sip EXCEPT !.promise = "pending", !.regCseq = 1,
                          !.regHandler = TRUE, !.regTimer = TRUE,
                          !.registers = <<createRegisterRequest(
                              registerCallId, registerFromTag, 1)>>]
    /\ call' = [call EXCEPT !.socket = TRUE]
    /\ events' = <<Ev("sip_request", "REGISTER")>>
    /\ UNCHANGED sessionVars

\* A response arrives while the handler of register() is installed.  On 200
\* the promise of register() resolves and makeCall() continues before the
\* next datagram is handled: callData is created and stored, the handler of
\* the call replaces the one of register(), INVITE is sent with CSeq 1 and
\* the 30 s timeout is armed.
RegisterResponse(code) ==
    /\ sip.regHandler
    /\ call.socket
    /\ sip.regResponses < MaxRegisterResponses
    /\ LET s == [sip EXCEPT !.regResponses = @ + 1] IN
       CASE code \in {401, 407} ->
              /\ sip' = [s EXCEPT
                     !.regCseq = @ + 1,
                     !.registers = Append(@, createAuthenticatedRegister(
                         registerCallId, registerFromTag, s.regCseq + 1))]
              /\ events' = <<Ev("sip_response", statusText[code]),
                             Ev("sip_request", "REGISTER")>>
              /\ UNCHANGED call
         [] code = 200 ->
              /\ sip' = [s EXCEPT
                     !.registered = TRUE, !.regHandler = FALSE,
                     !.status = "initiating", !.handler = TRUE,
                     !.cseq = 1, !.timer = TRUE,
                     !.invites = <<createInviteRequest(
                         inviteCallId, inviteFromTag, 1)>>]
              /\ call' = [call EXCEPT !.active = TRUE]
              /\ events' = <<Ev("sip_response", statusText[code]),
                             Ev("sip_request", "INVITE")>>
         [] OTHER ->
              /\ sip' = [s EXCEPT !.promise = settle(@, "rejected")]
              /\ call' = [call EXCEPT !.socket = FALSE]
              /\ events' = <<Ev("sip_response", statusText[code]),
                             Ev("log", logRegistrationFailed)>>
    /\ UNCHANGED sessionVars

\* The 10 s timeout of register() fires.
RegisterTimeout ==
    /\ sip.regTimer
    /\ IF sip.registered
       THEN /\ sip' = [sip EXCEPT !.regTimer = FALSE]
            /\ UNCHANGED call
       ELSE /\ sip' = [sip EXCEPT !.regTimer = FALSE,
                                  !.promise = settle(@, "rejected")]
            /\ call' = [call EXCEPT !.socket = FALSE]
    /\ events' = <<>>
    /\ UNCHANGED sessionVars

\* A response arrives on the socket while the handler of the call is
\* installed; sdp is the endpoint of its SDP body, toTag its To tag.
InviteResponse(code, sdp, toTag) ==
    /\ sip.handler
    /\ call.socket
    /\ sip.responses < MaxInviteResponses
    /\ LET s == [sip EXCEPT !.responses = @ + 1]
           received == <<Ev("sip_response", statusText[code])>> IN
       CASE code \in {401, 407} ->
              IF authAlreadySent(sip)
              THEN /\ sip' = s
                   /\ events' = received \o <<Ev("log", logAuthAlreadySent)>>
                   /\ UNCHANGED call
              ELSE /\ sip' = [s EXCEPT
                          !.authSent = TRUE, !.cseq = @ + 1,
                          !.invites = Append(@, createAuthenticatedInvite(
                              inviteCallId, inviteFromTag, s.cseq + 1))]
                   /\ events' = received \o <<Ev("sip_request", "INVITE")>>
                   /\ UNCHANGED call
         [] code = 100 ->
              /\ sip' = [s EXCEPT !.status = "trying"]
              /\ events' = received \o <<Ev("trying", inviteCallId)>>
              /\ UNCHANGED call
         [] code = 180 ->
              /\ sip' = [s EXCEPT !.status = "ringing"]
              /\ events' = received \o <<Ev("ringing", inviteCallId)>>
              /\ UNCHANGED call
         [] code = 200 ->
              IF alreadyAnswered(sip)
              THEN IF sdp # NoSdp /\ sdp # sip.remoteRtp
                   THEN /\ sip' = [s EXCEPT !.remoteRtp = sdp,
                                            !.endpointLockout = TRUE,
                                            !.sdpRerouteOccurred = TRUE]
                        /\ events' = received \o
                               <<Ev("log", logEndpointUpdatedSdp)>>
                        /\ UNCHANGED call
                   ELSE /\ sip' = s
                        /\ events' = received \o
                               <<Ev("log", logDuplicateOk)>>
                        /\ UNCHANGED call
              ELSE /\ sip' = [s EXCEPT
                          !.answered = TRUE, !.status = "answered",
                          !.toTag = toTag,
                          !.remoteRtp = IF sdp = NoSdp THEN fallbackEndpoint
                                        ELSE sdp,
                          !.acks = Append(@, createAckRequest(
                              inviteCallId, inviteFromTag, toTag, s.cseq)),
                          !.rtpStarts = @ + 1,
                          !.answeredEvents = @ + 1,
                          !.promise = settle(@, "resolved")]
                   \* startRtpSession(callData, localIp)
                   /\ call' = [call EXCEPT !.rtpSocket = TRUE,
                                           !.isSendingAudio = FALSE,
                                           !.keepAliveInterval = TRUE]
                   /\ events' = received \o <<Ev("sip_request", "ACK"),
                                              Ev("answered", inviteCallId)>>
         [] OTHER ->
              /\ sip' = [s EXCEPT !.status = "failed",
                                  !.promise = settle(@, "rejected")]
              /\ call' = [call EXCEPT !.socket = FALSE, !.active = FALSE]
              /\ events' = received \o <<Ev("log", logCallFailed)>>
    /\ UNCHANGED sessionVars

\* The 30 s timeout of makeCall() fires.
CallTimeout ==
    /\ sip.timer
    /\ IF sip.status \in {"initiating", "trying"}
       THEN /\ sip' = [sip EXCEPT !.timer = FALSE,
                                  !.promise = settle(@, "rejected")]
            /\ call' = [call EXCEPT !.socket = FALSE, !.active = FALSE]
            /\ events' = <<Ev("log", logCallTimeout)>>
       ELSE /\ sip' = [sip EXCEPT !.timer = FALSE]
            /\ events' = <<>>
            /\ UNCHANGED call
    /\ UNCHANGED sessionVars

\* A datagram of len bytes arrives on the RTP socket from src.
RtpPacket(src, len) ==
    /\ call.rtpSocket
    /\ sip' = IF /\ src # sip.remoteRtp
                 /\ symmetricRtpAllowed(sip)
                 /\ len > 12
              THEN [sip EXCEPT !.remoteRtp = src]
              ELSE sip
    /\ events' = <<Ev("rtp_in", src)>> \o
                 (IF len > 12 THEN <<Ev("audio_in", "payload")>> ELSE <<>>)
    /\ UNCHANGED <<sessionVars, call>>

\* Five seconds have passed since the SDP of a later 200 moved the endpoint.
LockoutExpires ==
    /\ sip.endpointLockout
    /\ sip' = [sip EXCEPT !.endpointLockout = FALSE]
    /\ events' = <<>>
    /\ UNCHANGED <<sessionVars, call>>

\* A BYE request is received during a media session, with the listener the
\* application puts on the 'ended' event of the SIP service: the session of
\* the call is ended through onCallEnded(internalCallId), which runs up to
\* the first await of endSession before the BYE handler returns.
SipByeOnCallEnded ==
    /\ transport = "sip"
    /\ call.active
    /\ bridge.session \/ call.byeReceived
    /\ call' = onBye(call)
    /\ IF byeAlreadyReceived(call) \/ ~bridge.session
       THEN /\ events' = <<Ev("sip_in", "BYE")>>
            /\ UNCHANGED <<orch, deepgram, elevenlabs, pc, ended, bridge>>
       ELSE /\ OrchEndLogged(orch, onCallEndedReason,
                             <<Ev("sip_in", "BYE"), Ev("sip", "200 OK"),
                               Ev("sip_ended", "remote_hangup")>>)
            /\ bridge' = endSessionEnter(
                             EndedListenerBridge(bridge, endRuns(orch),
                                                 onCallEndedReason),
                             onCallEndedReason)
    /\ UNCHANGED <<firstMessageMode, transport, sip, rtp, componentVars, ws>>

\* ------------------------------------------- SipTrunkService: RTP bytes
\* The 'audio' listener of the bridge passes a TTS buffer to sendAudio.
RtpSendAudio(audioData) ==
    /\ rtp.calls < MaxSendAudio
    /\ rtp' = sendAudioChunks(rtp, audioData)
    /\ events' = <<Ev("audio", "chunk")>>
    /\ UNCHANGED <<orch, deepgram, elevenlabs, pc, ended, firstMessageMode,
                   transport, ws, bridge, call, sip,
                   componentVars>>

\* One timer callback from the header on: the sequence number is taken and
\* incremented, writing a timestamp above 2^32 - 1 throws out of the
\* callback, otherwise the packet is sent and the timestamp advanced.
RtpSend(r, kind, chunk) ==
    IF writeUInt32BEThrows(r.rtpTimestamp)
    THEN /\ rtp' = [r EXCEPT !.rtpSequence = @ + 1]
         /\ events' = <<Ev("uncaughtException", "ERR_OUT_OF_RANGE")>>
    ELSE /\ rtp' = [r EXCEPT
                !.rtpSequence = @ + 1,
                !.rtpTimestamp = plus(@, Len(chunk.bytes)),
                !.sent = Append(@, rtpPacket(r, kind, chunk))]
         /\ events' = <<Ev("rtp", kind)>>

\* The 20 ms pacer interval fires.
RtpPacerTick ==
    /\ rtp.audioSendInterval
    /\ rtp.rtpSequence < rtp.first + MaxPackets
    /\ IF rtp.audioQueue = <<>>
       THEN /\ rtp' = [rtp EXCEPT !.audioSendInterval = FALSE,
                                  !.isSendingAudio = FALSE]
            /\ events' = <<>>
       ELSE RtpSend([rtp EXCEPT !.audioQueue = Tail(@)], "audio",
                    Head(rtp.audioQueue))
    /\ UNCHANGED <<orch, deepgram, elevenlabs, pc, ended, firstMessageMode,
                   transport, ws, bridge, call, sip,
                   componentVars>>

\* The 20 ms keep-alive interval fires; recent: the pacer stopped less than
\* 40 ms ago.
RtpKeepAliveTick(recent) ==
    /\ rtp.keepAliveInterval
    /\ rtp.rtpSequence < rtp.first + MaxPackets
    /\ IF rtp.isSendingAudio \/ recent
       THEN /\ rtp' = rtp
            /\ events' = <<>>
       ELSE RtpSend(rtp, "keepalive",
                    [bytes |-> silenceBuffer(rtp.remoteCodec), src |-> <<>>])
    /\ UNCHANGED <<orch, deepgram, elevenlabs, pc, ended, firstMessageMode,
                   transport, ws, bridge, call, sip,
                   componentVars>>

\* ------------------------------------ media-stream server: media frames
\* The variables of the conversation and of the SIP call.
callVars == <<orch, deepgram, elevenlabs, pc, ended, firstMessageMode,
              transport, ws, bridge, call, sip, rtp>>

\* After handleStart has returned: sessionReady is set and the buffered
\* frames are processed in one go, then the buffer is cleared.
sessionIsReady(st) ==
    [processBuffered([st EXCEPT !.sessionReady = TRUE,
                                !.early = st.arrived,
                                !.drained = st.session],
                     st.mediaBuffer)
        EXCEPT !.mediaBuffer = <<>>, !.phase = "ready"]

\* 'start' frame: handleStart up to its await of Agent.findById.
StreamStart ==
    /\ stream.phase = "open"
    /\ ~stream.over /\ ~stream.closed
    /\ stream' = [stream EXCEPT !.phase = "loading"]
    /\ events' = <<>>
    /\ UNCHANGED <<callVars, mixer, dial, stt>>

\* Agent.findById resolved with no agent: handleStart returns.
StreamAgentNotFound ==
    /\ stream.phase = "loading"
    /\ stream' = sessionIsReady(stream)
    /\ events' = <<>>
    /\ UNCHANGED <<callVars, mixer, dial, stt>>

\* Agent.findById resolved: the session is stored in activeSessions and
\* handleStart awaits orchestrator.start().
StreamAgentLoaded ==
    /\ stream.phase = "loading"
    /\ stream' = [stream EXCEPT !.phase = "starting", !.session = TRUE]
    /\ events' = <<>>
    /\ UNCHANGED <<callVars, mixer, dial, stt>>

\* orchestrator.start() settled: handleStart returns.
StreamStarted ==
    /\ stream.phase = "starting"
    /\ stream' = sessionIsReady(stream)
    /\ events' = <<>>
    /\ UNCHANGED <<callVars, mixer, dial, stt>>

\* 'media' frame.
StreamMedia ==
    /\ ~stream.over /\ ~stream.closed
    /\ IF stream.sessionReady
       THEN stream.arrived - stream.early < MaxLateFrames
       ELSE stream.arrived < MaxEarlyFrames
    /\ LET msg == stream.arrived + 1
           st == [stream EXCEPT !.arrived = msg] IN
       stream' = IF stream.sessionReady
                 THEN handleMedia(st, msg)
                 ELSE [st EXCEPT !.mediaBuffer = bufferMedia(@, msg)]
    /\ events' = <<>>
    /\ UNCHANGED <<callVars, mixer, dial, stt>>

\* 'stop' frame: handleStop removes the session.
StreamStop ==
    /\ ~stream.over /\ ~stream.closed
    /\ stream.phase # "open"
    /\ stream' = [stream EXCEPT !.over = TRUE, !.session = FALSE]
    /\ events' = <<Ev("log", logStreamStopped)>>
    /\ UNCHANGED <<callVars, mixer, dial, stt>>

\* ws 'close': the session is removed.
StreamClose ==
    /\ ~stream.closed
    /\ stream' = [stream EXCEPT !.closed = TRUE, !.session = FALSE]
    /\ events' = <<Ev("log", logClientDisconnected)>>
    /\ UNCHANGED <<callVars, mixer, dial, stt>>

\* The 'ended' listener of the orchestrator removes the session.
StreamSessionEnded ==
    /\ stream.session
    /\ stream' = [stream EXCEPT !.session = FALSE]
    /\ events' = <<>>
    /\ UNCHANGED <<callVars, mixer, dial, stt>>

\* -------------------------------------------- RecordingService: mixAudio
\* mixAudio of a buffer with itself, one sample: both sides are decoded.
MixerDecode ==
    /\ mixer.stage = "sample"
    /\ mixer' = [mixer EXCEPT !.stage = "linear",
                              !.linear = mulawToLinear(mixer.mulaw)]
    /\ events' = <<>>
    /\ UNCHANGED <<callVars, stream, dial, stt>>

\* The average of the two equal samples is encoded.
MixerEncode ==
    /\ mixer.stage = "linear"
    /\ mixer' = [mixer EXCEPT
                    !.stage = "mixed",
                    !.mixed = linearToMulaw((mixer.linear + mixer.linear)
                                            \div 2)]
    /\ events' = <<>>
    /\ UNCHANGED <<callVars, stream, dial, stt>>

\* ---------------------------------------- SipTrunkService: dialed number
\* makeCall() builds the INVITE.
DialInvite ==
    /\ dial.stage = "number"
    /\ dial' = [dial EXCEPT !.stage = "invite",
                            !.invite = cleanTo(dial.toNumber)]
    /\ events' = <<>>
    /\ UNCHANGED <<callVars, stream, mixer, stt>>

\* The 401/407 branch builds the authenticated INVITE.
DialAuthenticatedInvite ==
    /\ dial.stage = "invite"
    /\ dial' = [dial EXCEPT !.stage = "authenticated",
                            !.authenticated = cleanTo(dial.toNumber)]
    /\ events' = <<>>
    /\ UNCHANGED <<callVars, stream, mixer, stt>>

\* ------------------------------------------ DeepgramService on a clock
\* A timer that is due fires before the clock moves on.
sttTimerDue ==
    \/ stt.clearTimeouts # <<>> /\ Head(stt.clearTimeouts) <= stt.now
    \/ stt.interimTimer /\ stt.interimDue <= stt.now

\* A quarter of a second passes.
SttTick ==
    /\ stt.now < MaxTime
    /\ ~sttTimerDue
    /\ stt' = [stt EXCEPT !.now = @ + 1]
    /\ events' = <<>>
    /\ UNCHANGED <<callVars, stream, mixer, dial>>

\* The orchestrator calls clearBuffer() (getAIResponse, speak).
SttClearBuffer ==
    /\ stt.clears < MaxClears
    /\ stt' = [clearBuffer(stt) EXCEPT
                  !.clearTimeouts =
                      Append(@, stt.now + ticks(CLEAR_BUFFER_MS)),
                  !.clears = @ + 1, !.clearedAt = stt.now,
                  !.last = "clearBuffer"]
    /\ events' = <<>>
    /\ UNCHANGED <<callVars, stream, mixer, dial>>

\* A 500 ms timeout of clearBuffer fires.
SttClearBufferTimeout ==
    /\ stt.clearTimeouts # <<>>
    /\ Head(stt.clearTimeouts) <= stt.now
    /\ stt' = clearBufferExpired(stt)
    /\ events' = <<>>
    /\ UNCHANGED <<callVars, stream, mixer, dial>>

\* Transcript event with a non-empty final transcript.
SttFinal(transcript) ==
    /\ stt.handlers
    /\ IF ignoring(stt)
       THEN /\ stt' = stt
            /\ events' = <<Ev("dropped", transcript)>>
       ELSE /\ stt' = [stt EXCEPT !.interimTimer = FALSE,
                                  !.lastInterimTranscript = "",
                                  !.last = "final"]
            /\ events' = <<Ev("onTranscript", transcript)>>
    /\ UNCHANGED <<callVars, stream, mixer, dial>>

\* Transcript event with a non-empty interim transcript.
SttInterim(transcript) ==
    /\ stt.handlers
    /\ IF ignoring(stt)
       THEN /\ stt' = stt
            /\ events' = <<Ev("dropped", transcript)>>
       ELSE /\ stt' = startInterimFallbackTimer(
                         [stt EXCEPT !.lastInterimTranscript = transcript,
                                     !.interimAt = stt.now,
                                     !.last = "interim"])
            /\ events' = <<Ev("onInterim", transcript)>>
    /\ UNCHANGED <<callVars, stream, mixer, dial>>

\* The pending interim is handed to onTranscript by the handler named.
sttUsePending(d, line, name) ==
    /\ stt' = [d EXCEPT !.interimTimer = FALSE,
                        !.lastInterimTranscript = "",
                        !.last = name]
    /\ events' = <<Ev("log", line),
                   Ev("onTranscript", d.lastInterimTranscript)>>

\* Transcript event with an empty final transcript, or UtteranceEnd.
SttEndOfSpeech(line) ==
    /\ stt.handlers
    /\ IF stt.lastInterimTranscript # "" /\ ~ignoring(stt)
       THEN sttUsePending(stt, line, "endOfSpeech")
       ELSE /\ stt' = stt
            /\ events' = <<Ev("dropped", "")>>
    /\ UNCHANGED <<callVars, stream, mixer, dial>>

\* The fallback timer fires.
SttInterimFallback ==
    /\ stt.interimTimer
    /\ stt.interimDue <= stt.now
    /\ IF stt.lastInterimTranscript # "" /\ ~ignoring(stt)
       THEN sttUsePending(stt, logInterimFallback, "fallback")
       ELSE /\ stt' = [stt EXCEPT !.interimTimer = FALSE]
            /\ events' = <<>>
    /\ UNCHANGED <<callVars, stream, mixer, dial>>

\* close(), called by end().
SttClose ==
    /\ stt.connection
    /\ stt' = [close(stt) EXCEPT !.last = "close"]
    /\ events' = <<>>
    /\ UNCHANGED <<callVars, stream, mixer, dial>>

\* ----------------------------------------------------------------- Next
\* The recognizer delivers events on the hosted transport; the caller of the
\* SIP call is silent (scenario S1), which keeps the product of the RTP
\* timers with the conversation small.  The orchestrator is the same class
\* on both transports.
CallerSpeaks == transport = "ws"

\* The steps of the conversation itself, on either transport.
ConversationNext ==
    \/ CallerSpeaks /\ \E tr \in Transcripts : TranscriptFinal(tr)
    \/ CallerSpeaks /\ \E tr \in Transcripts : TranscriptInterim(tr)
    \/ CallerSpeaks /\ TranscriptEmptyFinal
    \/ CallerSpeaks /\ UtteranceEnd
    \/ InterimFallback
    \/ ClearBufferTimeout
    \/ \E t \in Turns : DelayDone(t)
    \/ \E t \in Turns : LlmDone(t)
    \/ \E t \in Turns : LlmFail(t)
    \/ \E t \in Tasks : TtsDone(t)
    \/ \E t \in Tasks : \E n \in 1..MaxQueue : TtsChunk(t, n)
    \/ \E t \in Tasks : TtsFail(t)
    \/ SilenceTimeout
    \/ MaxDurationTimeout

SessionNext ==
    \/ WsStart
    \/ WsAgentNotFound
    \/ WsAgentLoaded
    \/ WsStop
    \/ WsClose
    \/ WsSaveDone
    \/ SipStartSession
    \/ \E r \in EndSessionReasons : EndSession(r)
    \/ OnCallEnded
    \/ \E i \in 1..(MaxExternalEnds + 1) : EndSessionUploaded(i)
    \/ \E i \in 1..(MaxExternalEnds + 1) : EndSessionUpdated(i)
    \/ \E i \in 1..(MaxExternalEnds + 1) : EndSessionHungUp(i)
    \/ PacerTick
    \/ \E recent \in BOOLEAN : KeepAliveTick(recent)
    \/ ConversationNext

Next ==
    \/ SessionNext
    \/ SipBye

Spec == Init /\ [][Next]_vars

\* A setTimeout callback runs once it is due: the handlers of the event loop
\* all return, so a pending timer is not postponed for ever.
\* A call on the hosted media-stream transport, with the 'stop' frames of
\* the started stream recorded in ws.stopped.
HostedInit == Init /\ transport = "ws"

HostedNext ==
    \/ WsStart
    \/ WsAgentNotFound
    \/ WsAgentLoaded
    \/ WsStopObserved
    \/ WsClose
    \/ WsSaveDone
    \/ ConversationNext

HostedSpec == HostedInit /\ [][HostedNext]_vars

SilenceSpec == Spec /\ WF_vars(SilenceTimeout)
MaxDurationSpec == Spec /\ WF_vars(MaxDurationTimeout)

\* Remote hangup during a media session (scenario S4): the conversation as
\* in Spec, with the BYE handled by the application's listener.
ByeSpec == Init /\ [][SessionNext \/ SipByeOnCallEnded]_vars

\* The RTP send side of one answered, live call: no BYE, hangup or close().
RtpInit ==
    /\ orch = [state |-> "idle", aborted |-> FALSE, conversationLog |-> <<>>,
               silenceTimer |-> FALSE, maxDurationTimer |-> FALSE]
    /\ deepgram = [ignoreTranscripts |-> FALSE, lastInterimTranscript |-> "",
                   interimTimer |-> FALSE,
                   connection |-> FALSE, handlers |-> FALSE]
    /\ elevenlabs = [stopped |-> FALSE]
    /\ pc = [t \in Tasks |-> "idle"]
    /\ events = <<>>
    /\ ended = 0
    /\ firstMessageMode = "assistant-speaks-first"
    /\ transport = "sip"
    /\ ws = [phase |-> "open", closed |-> FALSE, session |-> FALSE,
             save |-> "none", stopped |-> FALSE]
    /\ bridge = [session |-> TRUE, audioInHandler |-> TRUE,
                 endTasks |-> <<>>, externalEnds |-> 0,
                 recording |-> TRUE, uploads |-> 0, updates |-> 0,
                 byes |-> 0]
    /\ call = [active |-> TRUE, keepAliveInterval |-> TRUE,
               audioSendInterval |-> FALSE, audioQueue |-> 0,
               isSendingAudio |-> FALSE, rtpSocket |-> TRUE,
               socket |-> TRUE, byeReceived |-> FALSE]
    /\ sip = answeredSip
    /\ \E codec \in RemoteCodecs : \E n \in ElapsedPackets :
          rtp = newRtp(codec, n)
    /\ stream = newStream
    /\ stt = newStt
    /\ mixer = newMixer(0)
    /\ dial = newDial(<<>>)

RtpNext ==
    \/ \E audioData \in AudioBuffers : RtpSendAudio(audioData)
    \/ RtpPacerTick
    \/ \E recent \in BOOLEAN : RtpKeepAliveTick(recent)

RtpSpec == RtpInit /\ [][RtpNext]_vars

\* The signalling of one outbound call, from makeCall() on: no media session
\* is attached to the call, so the events of the trunk have no listener.
SipInit ==
    /\ orch = [state |-> "idle", aborted |-> FALSE, conversationLog |-> <<>>,
               silenceTimer |-> FALSE, maxDurationTimer |-> FALSE]
    /\ deepgram = [ignoreTranscripts |-> FALSE, lastInterimTranscript |-> "",
                   interimTimer |-> FALSE,
                   connection |-> FALSE, handlers |-> FALSE]
    /\ elevenlabs = [stopped |-> FALSE]
    /\ pc = [t \in Tasks |-> "idle"]
    /\ events = <<>>
    /\ ended = 0
    /\ firstMessageMode = "assistant-speaks-first"
    /\ transport = "sip"
    /\ ws = [phase |-> "open", closed |-> FALSE, session |-> FALSE,
             save |-> "none", stopped |-> FALSE]
    /\ bridge = [session |-> FALSE, audioInHandler |-> FALSE,
                 endTasks |-> <<>>, externalEnds |-> 0,
                 recording |-> FALSE, uploads |-> 0, updates |-> 0,
                 byes |-> 0]
    /\ call = [active |-> FALSE, keepAliveInterval |-> FALSE,
               audioSendInterval |-> FALSE, audioQueue |-> 0,
               isSendingAudio |-> FALSE, rtpSocket |-> FALSE,
               socket |-> FALSE, byeReceived |-> FALSE]
    /\ sip = newSip
    /\ rtp = newRtp(0, 0)
    /\ stream = newStream
    /\ stt = newStt
    /\ mixer = newMixer(0)
    /\ dial = newDial(<<>>)

SipNext ==
    \/ Register
    \/ \E code \in RegisterStatusCodes : RegisterResponse(code)
    \/ RegisterTimeout
    \/ \E code \in InviteStatusCodes : \E sdp \in Endpoints \cup {NoSdp} :
          \E toTag \in ToTags : InviteResponse(code, sdp, toTag)
    \/ CallTimeout
    \/ \E src \in Endpoints : \E len \in RtpLengths : RtpPacket(src, len)
    \/ LockoutExpires
    \/ \E recent \in BOOLEAN : KeepAliveTick(recent)
    \/ SipBye

SipSpec == SipInit /\ [][SipNext]_vars

\* The timeouts of register() and makeCall() are timers of the event loop:
\* once armed they fire.  Which responses the trunk sends is left open.
SipLiveSpec == SipSpec /\ WF_vars(CallTimeout) /\ WF_vars(RegisterTimeout)

\* No call is in progress: the conversation and the trunk at rest.
idleCall ==
    /\ orch = [state |-> "idle", aborted |-> FALSE, conversationLog |-> <<>>,
               silenceTimer |-> FALSE, maxDurationTimer |-> FALSE]
    /\ deepgram = [ignoreTranscripts |-> FALSE, lastInterimTranscript |-> "",
                   interimTimer |-> FALSE,
                   connection |-> FALSE, handlers |-> FALSE]
    /\ elevenlabs = [stopped |-> FALSE]
    /\ pc = [t \in Tasks |-> "idle"]
    /\ events = <<>>
    /\ ended = 0
    /\ firstMessageMode = "assistant-speaks-first"
    /\ transport = "ws"
    /\ ws = [phase |-> "open", closed |-> FALSE, session |-> FALSE,
             save |-> "none", stopped |-> FALSE]
    /\ bridge = [session |-> FALSE, audioInHandler |-> FALSE,
                 endTasks |-> <<>>, externalEnds |-> 0,
                 recording |-> FALSE, uploads |-> 0, updates |-> 0,
                 byes |-> 0]
    /\ call = [active |-> FALSE, keepAliveInterval |-> FALSE,
               audioSendInterval |-> FALSE, audioQueue |-> 0,
               isSendingAudio |-> FALSE, rtpSocket |-> FALSE,
               socket |-> FALSE, byeReceived |-> FALSE]
    /\ sip = newSip
    /\ rtp = newRtp(0, 0)

\* The media frames of one hosted media-stream connection.
MediaInit ==
    /\ idleCall
    /\ stream = newStream
    /\ stt = newStt
    /\ mixer = newMixer(0)
    /\ dial = newDial(<<>>)

MediaNext ==
    \/ StreamStart
    \/ StreamAgentNotFound
    \/ StreamAgentLoaded
    \/ StreamStarted
    \/ StreamMedia
    \/ StreamStop
    \/ StreamClose
    \/ StreamSessionEnded

MediaSpec == MediaInit /\ [][MediaNext]_vars

\* Every mu-law byte through the codec of the recording mixer.
MixerInit ==
    /\ idleCall
    /\ stream = newStream
    /\ stt = newStt
    /\ \E mulaw \in 0..255 : mixer = newMixer(mulaw)
    /\ dial = newDial(<<>>)

MixerNext ==
    \/ MixerDecode
    \/ MixerEncode

MixerSpec == MixerInit /\ [][MixerNext]_vars

\* The INVITE and the authenticated INVITE for each dialed number.
DialInit ==
    /\ idleCall
    /\ stream = newStream
    /\ stt = newStt
    /\ mixer = newMixer(0)
    /\ \E withPlus \in BOOLEAN : \E prefix \in Prefixes :
          \E n \in 2..MaxDigits : dial = newDial(number(withPlus, prefix, n))

DialNext ==
    \/ DialInvite
    \/ DialAuthenticatedInvite

DialSpec == DialInit /\ [][DialNext]_vars

\* DeepgramService with its timers on a clock of quarter seconds.
SttInit ==
    /\ idleCall
    /\ stream = newStream
    /\ stt = newStt
    /\ mixer = newMixer(0)
    /\ dial = newDial(<<>>)

SttNext ==
    \/ SttTick
    \/ SttClearBuffer
    \/ SttClearBufferTimeout
    \/ \E transcript \in SttTranscripts : SttFinal(transcript)
    \/ \E transcript \in SttTranscripts : SttInterim(transcript)
    \/ \E line \in {logEmptyFinal, logUtteranceEnd} : SttEndOfSpeech(line)
    \/ SttInterimFallback
    \/ SttClose

SttSpec == SttInit /\ [][SttNext]_vars

\* ================================================================ claims
\* C1: once end() has run ('ended' was emitted), the state is 'ended' and
\* _aborted is set in every later state: no continuation of start(),
\* onUserSpeech, getAIResponse or speak(), and no timer, moves the state out
\* of 'ended'.
C1_EndedIsAbsorbing == ended > 0 => orch.state = "ended" /\ orch.aborted

\* A speak() whose TTS completed after end() has just returned.
C1_SpeakReturnedAfterEnd ==
    /\ ended > 0
    /\ EmittedWith(logNotRestarting, fullResponse)

\* C2: 'ended' is emitted exactly once per call that ends, whatever the
\* interleaving of end() calls and timer expiries: never twice, and once
\* whenever the state is 'ended'.
C2_EndedExactlyOnce == ended <= 1 /\ (orch.state = "ended" => ended = 1)

\* The ws 'close' handler has just called end() on an orchestrator that had
\* already ended, and nothing was emitted.
C2_SecondEndCall ==
    /\ ended = 1
    /\ ws.phase = "ready"
    /\ EmittedWith("log", logClientDisconnected)
    /\ ~Emitted("ended")

\* C3 (as stated): a step that starts the LLM call of a turn is never taken
\* while the LLM call or the TTS playback of an earlier turn is in flight.
C3_OneTurnAtATime ==
    [][\A t \in Turns :
         pc[t] = "delay" /\ pc'[t] = "llm"
             => \A u \in Turns : u < t => pc[u] \notin {"llm", "tts", "apology"}
      ]_vars

\* C4 (as stated): no user utterance is committed (appended to
\* conversationLog, 'user_speech' emitted) while the state is 'thinking' or
\* 'speaking'.
C4_NoUserEntryWhileBusy ==
    Emitted("user_speech") => orch.state \notin {"thinking", "speaking"}

\* C5: after end() the orchestrator emits no 'audio' event.
C5_NoAudioAfterEnd == ended > 0 => ~Emitted("audio")

\* A chunk of a TTS stream started before end() has just arrived after it.
C5_ChunkAfterEnd == ended > 0 /\ EmittedWith("log", logTtsAborted)

\* C6 (as stated): no RTP packet (paced audio or keep-alive) is sent after
\* the orchestrator's end().
C6_NoRtpAfterEnd == ended > 0 => ~Emitted("rtp")

C8_AllowedTransitions ==
    [][orch'.state # orch.state
          => \/ orch'.state = "ended"
             \/ <<orch.state, orch'.state>> \in
                    {<<"idle", "listening">>, <<"idle", "speaking">>,
                     <<"listening", "thinking">>, <<"thinking", "speaking">>,
                     <<"speaking", "listening">>}
      ]_vars

\* C9: when the LLM call fails and the session is not aborted, the apology
\* is spoken (state 'speaking', nothing ended); when the TTS of the apology
\* completes and the session is not aborted, the state is 'listening' and
\* the silence timer is armed.
C9_LlmErrorRecovery ==
    /\ EmittedWith("error", "llm")
           => /\ EmittedWith("speaking", errorMessage)
              /\ orch.state = "speaking"
              /\ ~Emitted("ended")
    /\ (ended = 0 /\ (\/ EmittedWith(logNowListening, errorMessage)
                      \/ EmittedWith(logNotRestarting, errorMessage)))
           => orch.state = "listening" /\ orch.silenceTimer

\* The TTS of the apology has just completed on a live session.
C9_ApologySpoken ==
    /\ EmittedWith(logNowListening, errorMessage)
    /\ \E t \in Turns : pc[t] = "done"
    /\ ended = 0

\* C10 (as stated): when the TTS of an assistant reply fails and the session
\* is not aborted ('error' is emitted for the reply), the apology is spoken.
C10_TtsErrorRecovers ==
    EmittedWith("error", fullResponse) => EmittedWith("speaking", errorMessage)

\* C11 (as stated): when the TTS of the apology fails on a live session
\* ('error' is emitted for the apology text), end('error') runs and 'ended'
\* is emitted with reason 'error'.
C11_ApologyFailureEnds ==
    EmittedWith("error", errorMessage) => EmittedWith("ended", "error")

\* C12 (as stated): in assistant-speaks-first mode the conversation log
\* begins, once start() has run, with an assistant entry holding
\* firstMessage.
C12_LogBeginsWithFirstMessage ==
    (firstMessageMode = "assistant-speaks-first" /\ pc[0] # "idle")
        => /\ Len(orch.conversationLog) >= 1
           /\ orch.conversationLog[1] =
                  [role |-> "assistant", content |-> firstMessage]

\* C13: the silence timer is armed whenever the state is 'listening', and
\* from 'listening' the session ends by the silence timeout unless
\* something else happens first: an interim or final transcript arrives
\* (which re-arms the timer) or the state leaves 'listening'.
C13_SilenceTimeoutEnds ==
    /\ [](orch.state = "listening" => orch.silenceTimer)
    /\ (orch.state = "listening")
           ~> \/ EmittedWith("ended", "silence_timeout")
              \/ orch.state # "listening"
              \/ Emitted("onInterim")
              \/ Emitted("onTranscript")

\* The silence timeout has just ended a session with nothing in flight.
C13_EndedBySilence ==
    /\ EmittedWith("ended", "silence_timeout")
    /\ pc[0] = "done"
    /\ \A t \in Turns : pc[t] \in {"idle", "done"}

\* C14: while a started session has not ended the max-duration timer is
\* pending, and every started session eventually reaches 'ended'.
C14_MaxDurationEnds ==
    /\ [](pc[0] # "idle" /\ orch.state # "ended" => orch.maxDurationTimer)
    /\ (pc[0] # "idle") ~> (orch.state = "ended")

\* The max-duration timeout has just ended a session while the LLM call of
\* a turn was in flight.
C14_EndedByMaxDuration ==
    /\ EmittedWith("ended", "max_duration")
    /\ \E t \in Turns : pc[t] = "llm"

\* C15: the STT wrapper passes a turn's utterance to onTranscript once: a
\* handler calls onTranscript at most once, never while transcripts are
\* suppressed, and leaves nothing pending behind (no stored interim, no
\* fallback timer), so a later UtteranceEnd, empty final or timer expiry of
\* the same turn emits nothing; no interim is stored while suppressed; and a
\* stored interim is dropped only by being passed to onTranscript, by
\* clearBuffer (suppression) or by close().
C15_OneUtterancePerTurn ==
    /\ [](/\ Cardinality({i \in 1..Len(events) :
                              events[i][1] = "onTranscript"}) <= 1
          /\ Emitted("onTranscript")
                 => /\ deepgram.lastInterimTranscript = ""
                    /\ ~deepgram.interimTimer
          /\ deepgram.ignoreTranscripts
                 => deepgram.lastInterimTranscript = "")
    /\ [][/\ Emitted("onTranscript")' => ~deepgram.ignoreTranscripts
          /\ (/\ deepgram.lastInterimTranscript # ""
              /\ deepgram'.lastInterimTranscript = "")
                 => \/ Emitted("onTranscript")'
                    \/ deepgram'.ignoreTranscripts
                    \/ ~deepgram'.connection
         ]_vars

\* An interim followed by an empty final has just been passed to
\* onTranscript as the committed utterance.
C15_InterimCommittedByEmptyFinal ==
    /\ EmittedWith("log", logEmptyFinal)
    /\ EmittedWith("onTranscript", "yes please")
    /\ EmittedWith("user_speech", "yes please")

\* C16: INVITE digest authentication is one-shot per dialog.  Of the INVITEs
\* sent for a call at most one carries credentials, and exactly one once a
\* 401/407 was answered; it has the Call-ID and the From tag of the original
\* INVITE and a CSeq one greater; a 401/407 received after credentials were
\* sent sends nothing and adds no INVITE.
C16_InviteAuthOneShot ==
    /\ [](LET auth == {i \in 1..Len(sip.invites) :
                           sip.invites[i].authorization} IN
          /\ Cardinality(auth) <= 1
          /\ sip.authSent => Cardinality(auth) = 1
          /\ \A i \in auth :
                /\ ~sip.invites[1].authorization
                /\ sip.invites[i].callId = sip.invites[1].callId
                /\ sip.invites[i].fromTag = sip.invites[1].fromTag
                /\ sip.invites[i].cseq = sip.invites[1].cseq + 1)
    /\ [][(/\ sip.authSent
           /\ \/ EmittedWith("sip_response", statusText[401])'
              \/ EmittedWith("sip_response", statusText[407])')
              => /\ sip'.invites = sip.invites
                 /\ ~EmittedWith("sip_request", "INVITE")'
         ]_vars

\* A second challenge has just been ignored: the original and one
\* authenticated INVITE were sent.
C16_SecondChallengeIgnored ==
    /\ EmittedWith("log", logAuthAlreadySent)
    /\ Len(sip.invites) = 2
    /\ sip.invites[2].authorization

\* C17: REGISTER digest authentication resends once per registration dialog.
\* Whatever 401/407 responses arrive, of the REGISTERs sent at most one
\* carries credentials.
C17_RegisterAuthOneShot ==
    Cardinality({i \in 1..Len(sip.registers) :
                    sip.registers[i].authorization}) <= 1

\* C18: answer is one-shot.  However many 200 responses a call receives,
\* ACK is sent, startRtpSession() is called and 'answered' is emitted at most
\* once, and exactly once when the call is answered; after the answer no
\* response changes toTag or starts the RTP session (socket, sequence,
\* timestamp, SSRC, keep-alive timer) again.
C18_AnswerOneShot ==
    /\ [](/\ Len(sip.acks) <= 1
          /\ sip.rtpStarts <= 1
          /\ sip.answeredEvents <= 1
          /\ sip.answered <=> (/\ Len(sip.acks) = 1
                               /\ sip.rtpStarts = 1
                               /\ sip.answeredEvents = 1
                               /\ sip.acks[1].toTag = sip.toTag))
    /\ [][sip.answered
             => /\ sip'.answered
                /\ sip'.toTag = sip.toTag
                /\ sip'.acks = sip.acks
                /\ sip'.rtpStarts = sip.rtpStarts
                /\ sip'.answeredEvents = sip.answeredEvents
                /\ ~Emitted("answered")'
                /\ ~EmittedWith("sip_request", "ACK")'
         ]_vars

\* A duplicate 200 has just been ignored by an answered call.
C18_DuplicateOkIgnored ==
    /\ EmittedWith("sip_response", statusText[200])
    /\ EmittedWith("log", logDuplicateOk)
    /\ sip.answered
    /\ sip.rtpStarts = 1

\* C19: symmetric RTP versus SDP authority.  A received RTP packet makes
\* its source the send endpoint exactly when the source differs from the
\* recorded endpoint, the packet is longer than 12 bytes, no SDP re-route
\* has occurred and no lockout is active; otherwise the endpoint stays.
\* Outbound RTP goes to the recorded endpoint.  A 200 after the answer that
\* changes the endpoint records an SDP re-route, the record is never
\* cleared, and from then on no received packet changes the endpoint.
C19_SymmetricRtpVersusSdp ==
    /\ [](\A e \in Endpoints \cup {fallbackEndpoint} :
              EmittedWith("rtp_to", e) => e = sip.remoteRtp)
    /\ [][/\ \A src \in Endpoints :
                EmittedWith("rtp_in", src)'
                   => sip'.remoteRtp =
                        IF /\ src # sip.remoteRtp
                           /\ Emitted("audio_in")'
                           /\ ~sip.sdpRerouteOccurred
                           /\ ~sip.endpointLockout
                        THEN src
                        ELSE sip.remoteRtp
          /\ (/\ sip.answered
              /\ EmittedWith("sip_response", statusText[200])'
              /\ sip'.remoteRtp # sip.remoteRtp)
                 => sip'.sdpRerouteOccurred
          /\ sip.sdpRerouteOccurred
                 => /\ sip'.sdpRerouteOccurred
                    /\ Emitted("rtp_in")' => sip'.remoteRtp = sip.remoteRtp
         ]_vars

\* After an SDP re-route and the end of its lockout, an RTP packet with
\* audio has just arrived from another source and the endpoint is still the
\* one of the SDP.
C19_PacketIgnoredAfterReroute ==
    /\ sip.sdpRerouteOccurred
    /\ ~sip.endpointLockout
    /\ Emitted("audio_in")
    /\ \E src \in Endpoints :
          EmittedWith("rtp_in", src) /\ src # sip.remoteRtp

\* C20: a final response >= 400 to the INVITE of a call whose promise is
\* pending, other than the first 401/407 (the challenge that is answered
\* with credentials), rejects the promise, closes the SIP socket and removes
\* the call from activeCalls; so does a 401/407 received after credentials
\* were sent.
C20_FinalErrorRejects ==
    [][(/\ sip.handler
        /\ sip.promise = "pending"
        /\ \/ EmittedWith("sip_response", statusText[486])'
           \/ /\ sip.authSent
              /\ \/ EmittedWith("sip_response", statusText[401])'
                 \/ EmittedWith("sip_response", statusText[407])')
          => /\ sip'.promise = "rejected"
             /\ ~call'.socket
             /\ ~call'.active
      ]_vars

\* C21: a received BYE is handled once per call.  'ended' with reason
\* 'remote_hangup' is emitted by the BYE that finds byeReceived unset and by
\* no other step, byeReceived is never unset again, and that first BYE
\* leaves the keep-alive timer and the pacer stopped and the audio queue
\* empty; so any number of BYEs yields exactly one such event.
C21_ByeHandledOnce ==
    [][/\ EmittedWith("sip_ended", "remote_hangup")'
             <=> (~call.byeReceived /\ call'.byeReceived)
       /\ call.byeReceived => call'.byeReceived
       /\ (~call.byeReceived /\ call'.byeReceived)
             => /\ ~call'.keepAliveInterval
                /\ ~call'.audioSendInterval
                /\ call'.audioQueue = 0
                /\ EmittedWith("sip", "200 OK")'
      ]_vars

\* A repeated BYE has just been received and ignored.
C21_DuplicateByeIgnored ==
    /\ EmittedWith("sip_in", "BYE")
    /\ ~Emitted("sip_ended")
    /\ call.byeReceived

C23_SequenceConsecutive ==
    /\ \A i \in 1..Len(rtp.sent) : rtp.sent[i].seq \in 0..65535
    /\ Len(rtp.sent) > 0 => rtp.sent[1].seq = rtp.first % 65536
    /\ \A i \in 1..(Len(rtp.sent) - 1) :
          rtp.sent[i + 1].seq = (rtp.sent[i].seq + 1) % 65536

\* An audio packet and a keep-alive packet were sent across the roll-over.
C23_RolledOver ==
    \E i \in 1..(Len(rtp.sent) - 1) :
       /\ rtp.sent[i].seq = 65535
       /\ rtp.sent[i + 1].seq = 0
       /\ rtp.sent[i].kind # rtp.sent[i + 1].kind

\* C24: every outbound RTP packet of a call carries exactly 160 payload
\* bytes and the timestamp of each packet is that of the one before it plus
\* 160, for audio and keep-alive packets and for sendAudio buffers of any
\* length.
C24_FixedPayloadAndStep ==
    /\ \A i \in 1..Len(rtp.sent) : Len(rtp.sent[i].payload) = 160
    /\ \A i \in 1..(Len(rtp.sent) - 1) :
          rtp.sent[i + 1].ts = plus(rtp.sent[i].ts, 160)

\* C25: the RTP timestamp rolls over modulo 2^32.  A timer callback that
\* takes a sequence number sends a packet, and the packet carries the
\* running timestamp reduced modulo 2^32.
C25_TimestampRollsOver ==
    [][rtp'.rtpSequence = rtp.rtpSequence + 1
          => /\ Len(rtp'.sent) = Len(rtp.sent) + 1
             /\ rtp'.sent[Len(rtp'.sent)].ts =
                    num(rtp.rtpTimestamp.hi % 65536, rtp.rtpTimestamp.lo)
      ]_vars

\* The bytes of a sequence of byte strings, in order.
RECURSIVE concat(_)
concat(buffers) ==
    IF buffers = <<>> THEN <<>> ELSE Head(buffers) \o concat(Tail(buffers))

\* The payloads of the audio packets sent, in sending order.
audioPayloads ==
    LET audio == SelectSeq(rtp.sent, LAMBDA p : p.kind = "audio") IN
    [i \in 1..Len(audio) |-> audio[i].payload]

\* The bytes handed to sendAudio, as the remote codec has them.
passedAsCodec ==
    IF rtp.remoteCodec = 8 THEN ulawToAlaw(rtp.passed) ELSE rtp.passed

\* C26: while the call is live, the payloads of the audio packets sent,
\* followed by the chunks still queued, are the bytes of the buffers handed
\* to sendAudio in call order (transcoded to A-law for codec 8): nothing is
\* dropped, duplicated or reordered; and a pacer that has stopped has sent
\* everything.
C26_OutboundAudioInOrder ==
    /\ concat(audioPayloads)
          \o concat([i \in 1..Len(rtp.audioQueue) |-> rtp.audioQueue[i].bytes])
       = passedAsCodec
    /\ ~rtp.audioSendInterval => concat(audioPayloads) = passedAsCodec

\* C27: every RTP packet of a call carries the payload type the answer's
\* SDP selected; for codec 8 every audio payload is the ULAW_TO_ALAW image
\* of its source bytes and every keep-alive payload is 0xD5 throughout; for
\* codec 0 the audio payload is the source bytes and the silence is 0xFF.
C27_CodecOnEveryPacket ==
    \A i \in 1..Len(rtp.sent) :
       LET p == rtp.sent[i] IN
       /\ rtp.remoteCodec \in {0, 8}
       /\ p.pt = rtp.remoteCodec
       /\ p.kind = "audio" =>
             /\ Len(p.payload) = Len(p.src)
             /\ \A j \in 1..Len(p.src) :
                   p.payload[j] = IF rtp.remoteCodec = 8
                                  THEN ULAW_TO_ALAW[p.src[j] + 1]
                                  ELSE p.src[j]
       /\ p.kind = "keepalive" =>
             \A j \in 1..Len(p.payload) :
                p.payload[j] = IF rtp.remoteCodec = 8 THEN 213 ELSE 255

\* On a PCMA call an audio packet and a keep-alive packet have been sent.
C27_AlawAudioAndSilenceSent ==
    /\ rtp.remoteCodec = 8
    /\ \E i \in 1..Len(rtp.sent) :
          rtp.sent[i].kind = "audio" /\ rtp.sent[i].payload # rtp.sent[i].src
    /\ \E i \in 1..Len(rtp.sent) : rtp.sent[i].kind = "keepalive"

\* C28: the start buffer of a media-stream connection never holds more than
\* 500 frames; until the session is ready nothing is delivered and the
\* buffer holds the first frames in arrival order; when the session becomes
\* ready the buffered frames are delivered to the orchestrator in arrival
\* order, before every frame that arrived later.
C28_StartBufferBoundedInOrder ==
    LET held == IF stream.early < 500 THEN stream.early ELSE 500
        kept == IF stream.arrived < 500 THEN stream.arrived ELSE 500 IN
    /\ Len(stream.mediaBuffer) <= 500
    /\ ~stream.sessionReady =>
          /\ stream.delivered = <<>>
          /\ stream.mediaBuffer = [i \in 1..kept |-> i]
    /\ stream.drained =>
          /\ Len(stream.delivered) >= held
          /\ \A i \in 1..held : stream.delivered[i] = i
          /\ \A i \in (held + 1)..Len(stream.delivered) :
                stream.delivered[i] > stream.early
    /\ \A i \in 1..(Len(stream.delivered) - 1) :
          stream.delivered[i] < stream.delivered[i + 1]

\* More than 500 frames came before the session was ready: 500 of them were
\* delivered, then a later one.
C28_FullBufferDrained ==
    /\ stream.drained
    /\ stream.early > 500
    /\ Len(stream.delivered) > 500
    /\ stream.delivered[500] = 500
    /\ stream.delivered[501] > stream.early

\* C29: the mu-law codec of the recording mixer round-trips: encoding the
\* decoding of a byte gives the byte back, and so decoding the encoding of a
\* decoded sample gives the sample back.
C29_MulawRoundTrip ==
    mixer.stage = "mixed" =>
       /\ mixer.mixed = mixer.mulaw
       /\ mulawToLinear(mixer.mixed) = mixer.linear

\* C30: the user part of the INVITE's Request-URI is the dialed number
\* without a leading '+', and without the prefix 91 exactly when at least
\* 10 digits follow the prefix; the authenticated INVITE has the same.
C30_CountryCodeDropped ==
    LET digits == stripPlus(dial.toNumber)
        expected == IF /\ Len(digits) >= 12
                       /\ SubSeq(digits, 1, 2) = <<"9", "1">>
                    THEN SubSeq(digits, 3, Len(digits))
                    ELSE digits IN
    /\ dial.stage \in {"invite", "authenticated"} => dial.invite = expected
    /\ dial.stage = "authenticated" => dial.authenticated = expected

\* C31: whenever the orchestrator is thinking or speaking, the STT wrapper
\* ignores transcripts: for the whole LLM call and the whole playback.
C31_EchoSuppressed ==
    orch.state \in {"thinking", "speaking"} => deepgram.ignoreTranscripts

\* C32: after a clearBuffer() call transcripts stay ignored for a full
\* 500 ms, also when an earlier call's timeout expires in between.
C32_FullSuppressionWindow ==
    (stt.clears > 0 /\ stt.now < stt.clearedAt + ticks(500))
       => stt.ignoreTranscripts

\* C33: while transcripts are ignored every recognizer event is dropped:
\* neither onTranscript nor onInterim is called, no interim is stored and
\* no fallback timer is armed, so nothing heard during suppression can be
\* emitted after it.
C33_SuppressedEventsDropped ==
    [][stt.ignoreTranscripts =>
          /\ ~Emitted("onTranscript")'
          /\ ~Emitted("onInterim")'
          /\ stt'.lastInterimTranscript = ""
          /\ ~stt'.interimTimer
      ]_vars

\* A transcript has just been dropped during suppression.
C33_TranscriptDropped ==
    /\ stt.ignoreTranscripts
    /\ EmittedWith("dropped", "yes please")

\* C34: an interim that is not suppressed is stored and arms the one
\* fallback timer for 1500 ms after it, each new interim anew; the timer
\* stays armed only until the next final, end of speech, clearBuffer or
\* close(); when it fires, 1500 ms after the latest interim, the stored
\* interim is handed to onTranscript.
C34_InterimFallback ==
    /\ [](/\ stt.last = "interim" =>
                /\ stt.interimTimer
                /\ stt.lastInterimTranscript # ""
          /\ stt.interimTimer =>
                /\ stt.last = "interim"
                /\ stt.interimDue = stt.interimAt + ticks(1500)
                /\ stt.now <= stt.interimDue)
    /\ [][EmittedWith("log", logInterimFallback)' =>
             /\ stt.interimTimer
             /\ stt.now = stt.interimAt + ticks(1500)
             /\ \E transcript \in SttTranscripts :
                   /\ transcript = stt.lastInterimTranscript
                   /\ EmittedWith("onTranscript", transcript)'
             /\ ~stt'.interimTimer
         ]_vars

\* The fallback has just fired for a second interim, which replaced the
\* first and restarted the window.
C34_FallbackAfterRestart ==
    /\ stt.last = "fallback"
    /\ EmittedWith("onTranscript", "yes please")
    /\ stt.interimAt > 0

\* C35: keep-alive and paced audio exclude each other.  Queued audio always
\* has a running pacer and isSendingAudio tells whether the pacer runs; a
\* keep-alive packet is sent only with the queue empty and the pacer
\* stopped; the pacer stops only on an empty queue, with isSendingAudio
\* false; and every sendAudio leaves the pacer running.
C35_KeepAliveExcludesAudio ==
    /\ [](/\ rtp.audioQueue # <<>> => rtp.audioSendInterval
          /\ rtp.isSendingAudio <=> rtp.audioSendInterval)
    /\ [][/\ EmittedWith("rtp", "keepalive")' =>
                rtp.audioQueue = <<>> /\ ~rtp.audioSendInterval
          /\ (rtp.audioSendInterval /\ ~rtp'.audioSendInterval) =>
                rtp.audioQueue = <<>> /\ ~rtp'.isSendingAudio
          /\ Len(rtp'.passed) > Len(rtp.passed) =>
                rtp'.audioSendInterval /\ rtp'.isSendingAudio
         ]_vars

\* A keep-alive has just been sent after the pacer sent audio and stopped.
C35_KeepAliveResumed ==
    /\ EmittedWith("rtp", "keepalive")
    /\ ~rtp.audioSendInterval
    /\ \E i \in 1..Len(rtp.sent) : rtp.sent[i].kind = "audio"

\* C36: the silence timer ends a session only while it is listening: no
\* silence timer is armed while the orchestrator is thinking or speaking,
\* and end('silence_timeout') never runs in those states.
C36_SilenceOnlyWhileListening ==
    /\ [](orch.state \in {"thinking", "speaking"} => ~orch.silenceTimer)
    /\ [][EmittedWith("ended", "silence_timeout")' =>
             orch.state \notin {"thinking", "speaking"}]_vars

\* C37: the teardown of a SIP media session runs once per call: whatever
\* the interleaving of endSession called from outside, the orchestrator's
\* 'ended' event and onCallEnded, at most one BYE is sent, at most one
\* recording upload is issued and the call record is updated at most once.
C37_TeardownOnce ==
    /\ bridge.byes <= 1
    /\ bridge.uploads <= 1
    /\ bridge.updates <= 1
\* C38: every makeCall promise eventually settles.  Once the INVITE is sent
\* the promise is eventually resolved (200) or rejected (a final >= 400 or
\* the 30 s timeout), whatever responses arrive, and a call that is not
\* answered is eventually removed from activeCalls.
C38_CallPromiseSettles ==
    (sip.handler /\ sip.promise = "pending")
        ~> (\/ sip.promise = "resolved"
            \/ sip.promise = "rejected" /\ ~call.active)
\* C39: a call that has been removed from activeCalls has neither its RTP
\* keep-alive timer nor its audio pacer timer running, and no RTP packet is
\* sent for a call that is not in activeCalls; this includes a call removed
\* by a response >= 400 that arrives after the 200.
C39_NoTimersAfterRemoval ==
    /\ [](~call.active => ~call.keepAliveInterval /\ ~call.audioSendInterval)
    /\ [][Emitted("rtp")' => call.active]_vars
\* C40: on the hosted media-stream transport, once a 'stop' frame or the
\* close of the WebSocket has been handled, no orchestrator of the stream
\* is running and none is started afterwards: the conversation is idle (it
\* never started) or ended, also when 'stop' or the close arrived while
\* handleStart was still loading the agent.
C40_NoOrchestratorAfterStop ==
    (transport = "ws" /\ (ws.stopped \/ ws.closed))
        => orch.state \in {"idle", "ended"}
====
